---- MODULE Spec2Model ----
(***************************************************************************)
(* Trigger evaluation and dispatch engine of the cdp-platform lambdas.      *)
(*                                                                         *)
(*  - workflow_trigger.py : upload accumulation, debounced drain, schedule *)
(*    dispatch and the fan-out start of step functions (SpecUpload).       *)
(*  - configure_jobs/invoke_via_sfn.py : the schedule-checking trigger     *)
(*    round over the run DB record (SpecTrigger).                          *)
(*                                                                         *)
(* Remote calls and plugin calls are inputs: each may succeed or raise     *)
(* where the source lets the exception have an effect.                     *)
(***************************************************************************)
EXTENDS Integers, Sequences, FiniteSets, TLC

\* ------------------------------------------------------------------ bounds
\* Number of distinct S3 paths that can be uploaded.
NPaths == 2
\* The clock runs from 0 to MaxTime.
MaxTime == 3
\* upload_window_seconds ranges over 0..MaxWindow.
MaxWindow == 1
\* Number of task names known to the run DB.
NTasks == 2
\* Longest list a function applied on its own is given.
MaxPathListLen == 2
\* Most members of a parameter text given to a function applied on its own.
MaxParams == 2
\* Most declared requirements of a task configuration.
MaxRequirements == 2

Paths == 1..NPaths

\* ------------------------------------------------------------ configuration
\* A string is the sequence of its parts; the parts '/snowflake/' and
\* 'last_query_id.parquet' stand for these substrings, "*" in a selector for
\* the wildcard of fnmatch.
\* A JSON value: a string (its parts) or any other value.
Str(parts) == [kind |-> "str", v |-> parts]
Json(x) == [kind |-> "json", v |-> x]

\* A dict is the sequence of its items in insertion order.
Item(key, value) == [key |-> key, value |-> value]

\* The S3 path the upload table knows under each number.
PathNames ==
    << << "raw", "/snowflake/", "last_query_id.parquet" >>,
       << "raw", "/", "b.csv" >>,
       << "raw", "/snowflake/", "part0.parquet" >>,
       << "tmp", "/", "b.csv" >> >>

\* UploadHandlerConfig.upload_triggers: each rule has its file_selector, the
\* flag ignore_snowflake_data_files, the flag check_only and the workflow
\* settings (name, arn, parameters) it starts.  u3 and u5 are check-only,
\* one between and one after the rules that are dispatched; u1 and u4 refer
\* to the check-only workflows, u2 does not.
UploadTriggers ==
    << [file_selector |-> << "*" >>, ignore_snowflake_data_files |-> FALSE,
        check_only |-> FALSE, name |-> "u1", arn |-> "sfnA",
        parameters |->
            << Item(<< "paths", ".$" >>, Str(<< "$.", "matching_path_list" >>)),
               Item(<< "checks", ".$" >>, Str(<< "$.", "check_only_workflows" >>)),
               Item(<< "mode" >>, Str(<< "full" >>)) >>],
       [file_selector |-> << "raw", "/snowflake/", "*" >>,
        ignore_snowflake_data_files |-> TRUE,
        check_only |-> FALSE, name |-> "u2", arn |-> "sfnB",
        parameters |->
            << Item(<< "all", ".$" >>, Str(<< "$.", "upload_path_list" >>)) >>],
       [file_selector |-> << "*", "b.csv" >>, ignore_snowflake_data_files |-> FALSE,
        check_only |-> TRUE,  name |-> "u3", arn |-> "sfnC",
        parameters |->
            << Item(<< "paths", ".$" >>, Str(<< "$.", "matching_path_list" >>)) >>],
       [file_selector |-> << "raw", "*" >>, ignore_snowflake_data_files |-> TRUE,
        check_only |-> FALSE, name |-> "u4", arn |-> "sfnC",
        parameters |->
            << Item(<< "found", ".$" >>, Str(<< "$.", "check_only_workflows" >>)),
               Item(<< "other", ".$" >>, Str(<< "$.", "execution_id" >>)) >>],
       [file_selector |-> << "*", "last_query_id.parquet" >>,
        ignore_snowflake_data_files |-> TRUE,
        check_only |-> TRUE,  name |-> "u5", arn |-> "sfnD",
        parameters |->
            << Item(<< "all", ".$" >>, Str(<< "$.", "upload_path_list" >>)) >>] >>

\* UploadHandlerConfig.scheduled_triggers.
ScheduledTriggers ==
    << [schedule_expression |-> "rate(1 day)",  name |-> "s1", arn |-> "sfnA",
        parameters |-> << >>],
       [schedule_expression |-> "rate(1 hour)", name |-> "s2", arn |-> "sfnB",
        parameters |-> << >>],
       [schedule_expression |-> "rate(1 day)",  name |-> "s3", arn |-> "sfnB",
        parameters |-> << >>],
       [schedule_expression |-> "rate(1 day)",  name |-> "s4", arn |-> "sfnC",
        parameters |-> << >>] >>

ScheduleExpressions == {"rate(1 day)", "rate(1 hour)", "rate(5 minutes)"}

\* ------------------------------------------------------------------ helpers
Range(s) == {s[k] : k \in DOMAIN s}

EmptyDict == << >>

\* dict.get(key, default)
DictGet(d, key, default) == IF key \in DOMAIN d THEN d[key] ELSE default

\* d[key] = value on a dict
DictSet(d, key, value) ==
    [k \in DOMAIN d \cup {key} |-> IF k = key THEN value ELSE d[k]]

\* a.update(b)
DictUpdate(a, b) ==
    [k \in DOMAIN a \cup DOMAIN b |-> IF k \in DOMAIN b THEN b[k] ELSE a[k]]

\* sorted(S) for a finite set of integers
RECURSIVE Sorted(_)
Sorted(S) ==
    IF S = {} THEN << >>
    ELSE LET m == CHOOSE x \in S : \A y \in S : x <= y
         IN  << m >> \o Sorted(S \ {m})

\* max(...) over a non-empty set of integers
Max(S) == CHOOSE x \in S : \A y \in S : y <= x

\* All orders in which the elements of S can be listed, each once.
RECURSIVE Orderings(_)
Orderings(S) ==
    IF S = {} THEN {<< >>}
    ELSE UNION {{<< x >> \o rest : rest \in Orderings(S \ {x})} : x \in S}

VARIABLES
    \* ---- workflow_trigger.py
    now,              \* the wall clock read by datetime.now()
    window,           \* config.upload_window_seconds
    uploadDb,         \* the upload table: upload_path -> upload_time
    hpc,              \* position of the running lambda_handler invocation
    event_kind,       \* which branch of lambda_handler runs: drain / schedule
    upload_path_list, \* lambda_handler: result of _select_upload_paths
    invocation_list,  \* lambda_handler / _start_step_functions argument
    pos,              \* _start_step_functions: index of the next loop item
    result,           \* _start_step_functions: result
    error_list,       \* _start_step_functions: error_list
    outcome,          \* how the invocation ended: returned / raised
    returned,         \* the value _start_step_functions returned
    raised_msg,       \* the invocations named by the RuntimeError raised
    \* history of the running invocation
    attempts,         \* the start_execution calls made, in call order,
                      \* each with whether it succeeded
    dbAtScan,         \* the upload table as the drain scanned it
    timeAtSelect,     \* the clock value _select_upload_paths read
    recordedDuring,   \* paths recorded by other invocations since the scan
    deleted,          \* the delete_item keys this drain issued
    drainLog,         \* the last drain, if it ended with its settled paths
                      \* still recorded and nothing was uploaded since
    event,            \* the keys of the event lambda_handler was last invoked with
    call,             \* a function of the code applied on its own: its
                      \* arguments and, once it has returned, its result
    \* ---- configure_jobs/invoke_via_sfn.py
    runDb,            \* the run DB item stored under run_db_key ({} if none)
    round,            \* per invocation of _get_triggered_tasks: its locals
    proc              \* the request being processed (SFNPayload.process)

handlerVars == << now, window, uploadDb, hpc, event_kind, upload_path_list,
                  invocation_list, pos, result, error_list, outcome, returned,
                  raised_msg, attempts, dbAtScan, timeAtSelect, recordedDuring, deleted,
                  drainLog, event >>

uploadVars == << handlerVars, call >>

triggerVars == << runDb, round, proc >>

vars == << uploadVars, triggerVars >>

\* ------------------------------------------------- workflow_trigger.py
\* WorkflowInvocationSettings built for a rule (the formatted name is unique
\* per rule and invocation).
Invocation(rule) ==
    [name |-> rule.name, arn |-> rule.arn, parameters |-> rule.parameters]

\* The executionArn start_execution answers with: state machine and name.
ExecutionArn(ws) == << ws.arn, ws.name >>

Keys(d) == {d[k].key : k \in DOMAIN d}

\* d.pop(key)
Pop(d, key) == SelectSeq(d, LAMBDA it : it.key # key)

\* d[key] = value: a key the dict has keeps its place, a new one goes last.
SetItem(d, key, value) ==
    IF key \in Keys(d)
    THEN [k \in DOMAIN d |-> IF d[k].key = key THEN Item(key, value) ELSE d[k]]
    ELSE Append(d, Item(key, value))

\* json.loads of the text of an object, given as its members in text order:
\* of two members with one key the later value is kept.
RECURSIVE json_loads(_)
json_loads(members) ==
    IF members = << >> THEN << >>
    ELSE LET last == members[Len(members)]
         IN  SetItem(json_loads(SubSeq(members, 1, Len(members) - 1)),
                     last.key, last.value)

\* json.dumps of a dict: its items in order.
json_dumps(d) == d

\* key.endswith('.$')
ends_with_dollar(key) == key # << >> /\ key[Len(key)] = ".$"

\* value == f'$.{kwargs_key}'
is_reference(value, kwargs_key) ==
    value.kind = "str" /\ value.v = << "$.", kwargs_key >>

\* _replace_invocation_parameters, the loop over kwargs for one item of the
\* parameters.
RECURSIVE replace_for_item(_, _, _, _)
replace_for_item(workflow_parameters, key, value, kwargs) ==
    IF kwargs = << >> THEN workflow_parameters
    ELSE LET kwargs_key == Head(kwargs).key
             kwargs_value == Head(kwargs).value
             replaced ==
                 IF is_reference(value, kwargs_key)
                 THEN SetItem(Pop(workflow_parameters, key),
                              SubSeq(key, 1, Len(key) - 1), kwargs_value)
                 ELSE workflow_parameters
         IN  replace_for_item(replaced, key, value, Tail(kwargs))

\* _replace_invocation_parameters, the loop over the items the parameters had
\* when it began.
RECURSIVE replace_items(_, _, _)
replace_items(workflow_parameters, items, kwargs) ==
    IF items = << >> THEN workflow_parameters
    ELSE LET key == Head(items).key
             value == Head(items).value
             after == IF ends_with_dollar(key)
                      THEN replace_for_item(workflow_parameters, key, value, kwargs)
                      ELSE workflow_parameters
         IN  replace_items(after, Tail(items), kwargs)

\* _replace_invocation_parameters(result, **kwargs): the new value of
\* result.parameters.
replace_invocation_parameters(parameters, kwargs) ==
    LET workflow_parameters == json_loads(parameters)
    IN  json_dumps(replace_items(workflow_parameters, workflow_parameters, kwargs))

\* fnmatch.fnmatch(name, pat): the whole name matches the pattern, "*"
\* standing for any run of parts, the empty one included.
RECURSIVE fnmatch(_, _)
fnmatch(name, pat) ==
    IF pat = << >> THEN name = << >>
    ELSE IF Head(pat) = "*"
         THEN \/ fnmatch(name, Tail(pat))
              \/ name # << >> /\ fnmatch(Tail(name), pat)
         ELSE /\ name # << >>
              /\ Head(name) = Head(pat)
              /\ fnmatch(Tail(name), Tail(pat))

\* '/snowflake/' in path
contains_snowflake(name) == \E k \in DOMAIN name : name[k] = "/snowflake/"

\* path.endswith('last_query_id.parquet')
ends_with_last_query_id(name) ==
    name # << >> /\ name[Len(name)] = "last_query_id.parquet"

\* get_matching_paths dropping every path below /snowflake/.
matching_names_drop_all_snowflake(file_selector, ignore_snowflake_data_files, name_list) ==
    LET matched == SelectSeq(name_list, LAMBDA path : fnmatch(path, file_selector))
    IN  IF ~ignore_snowflake_data_files THEN matched
        ELSE SelectSeq(matched, LAMBDA path : ~contains_snowflake(path))

\* UploadTriggerSettings.get_matching_paths on the path strings: filter by
\* fnmatch; unless ignore_snowflake_data_files, that is the result; else keep
\* the paths without '/snowflake/' and those ending in last_query_id.parquet.
matching_names(file_selector, ignore_snowflake_data_files, name_list) ==
    LET matched == SelectSeq(name_list, LAMBDA path : fnmatch(path, file_selector))
    IN  IF ~ignore_snowflake_data_files THEN matched
        ELSE SelectSeq(matched,
                 LAMBDA path : ~contains_snowflake(path)
                                  \/ ends_with_last_query_id(path))

\* UploadTriggerSettings.get_matching_paths for a rule and the numbered paths
\* of the upload table: the paths of path_list the rule lets through, in
\* input order.
get_matching_paths(rule, path_list) ==
    LET names == matching_names(rule.file_selector,
                                rule.ignore_snowflake_data_files,
                                [k \in DOMAIN path_list |-> PathNames[path_list[k]]])
    IN  SelectSeq(path_list, LAMBDA p : PathNames[p] \in Range(names))

\* _select_upload_paths with the window given in another unit than the
\* upload times are compared in.
select_upload_paths_minutes(upload_window_seconds, current_time, upload_entry_list) ==
    IF upload_entry_list = << >> THEN << >>
    ELSE LET time_of_last_upload ==
                 Max({upload_entry_list[k].upload_time : k \in DOMAIN upload_entry_list})
         IN  IF current_time - time_of_last_upload > 60 * upload_window_seconds
             THEN Sorted({upload_entry_list[k].upload_path : k \in DOMAIN upload_entry_list})
             ELSE << >>

\* _select_upload_paths with a non-strict comparison.
select_upload_paths_geq(upload_window_seconds, current_time, upload_entry_list) ==
    IF upload_entry_list = << >> THEN << >>
    ELSE LET time_of_last_upload ==
                 Max({upload_entry_list[k].upload_time : k \in DOMAIN upload_entry_list})
         IN  IF current_time - time_of_last_upload >= upload_window_seconds
             THEN Sorted({upload_entry_list[k].upload_path : k \in DOMAIN upload_entry_list})
             ELSE << >>

\* _select_upload_paths(upload_window_seconds, upload_entry_list); the clock
\* it reads is the parameter current_time.
select_upload_paths(upload_window_seconds, current_time, upload_entry_list) ==
    IF upload_entry_list = << >> THEN << >>
    ELSE LET time_of_last_upload ==
                 Max({upload_entry_list[k].upload_time : k \in DOMAIN upload_entry_list})
         IN  IF current_time - time_of_last_upload > upload_window_seconds
             THEN Sorted({upload_entry_list[k].upload_path : k \in DOMAIN upload_entry_list})
             ELSE << >>

\* _get_invocation_list_for_uploads, modified_workflow_dict: the rule's
\* workflow settings with the matching paths and the upload paths put into
\* the parameters.
modified_workflow_dict(upload_config, matching_path_list, upload_path_list_) ==
    [name |-> upload_config.name,
     arn |-> upload_config.arn,
     parameters |->
         replace_invocation_parameters(upload_config.parameters,
             << Item("matching_path_list", Json(matching_path_list)),
                Item("upload_path_list", Json(upload_path_list_)) >>)]

\* The first loop of _get_invocation_list_for_uploads appending a check-only
\* rule to the invocation list as well.
RECURSIVE match_upload_triggers_dispatch_all(_, _)
match_upload_triggers_dispatch_all(triggers, upload_path_list_) ==
    IF triggers = << >>
    THEN [check_only_list |-> << >>, invocation_list |-> << >>]
    ELSE LET upload_config == Head(triggers)
             rest == match_upload_triggers_dispatch_all(Tail(triggers),
                                                        upload_path_list_)
             matching_path_list == get_matching_paths(upload_config, upload_path_list_)
             modified == modified_workflow_dict(upload_config, matching_path_list,
                                                upload_path_list_)
         IN  IF matching_path_list = << >> THEN rest
             ELSE IF upload_config.check_only
             THEN [check_only_list |-> << modified >> \o rest.check_only_list,
                   invocation_list |-> << modified >> \o rest.invocation_list]
             ELSE [rest EXCEPT !.invocation_list = << modified >> \o @]

\* The first loop of _get_invocation_list_for_uploads: a rule without a
\* matching path is passed over; the others go, in configuration order, to
\* check_only_list or to invocation_list.
RECURSIVE match_upload_triggers(_, _)
match_upload_triggers(triggers, upload_path_list_) ==
    IF triggers = << >>
    THEN [check_only_list |-> << >>, invocation_list |-> << >>]
    ELSE LET upload_config == Head(triggers)
             rest == match_upload_triggers(Tail(triggers), upload_path_list_)
             matching_path_list == get_matching_paths(upload_config, upload_path_list_)
             modified == modified_workflow_dict(upload_config, matching_path_list,
                                                upload_path_list_)
         IN  IF matching_path_list = << >> THEN rest
             ELSE IF upload_config.check_only
             THEN [rest EXCEPT !.check_only_list = << modified >> \o @]
             ELSE [rest EXCEPT !.invocation_list = << modified >> \o @]

\* _get_invocation_list_for_uploads giving an invocation the check-only
\* workflows of the rules configured before its own.
get_invocation_list_for_uploads_seen_so_far(triggers, path_list) ==
    LET at == SelectSeq([k \in DOMAIN triggers |-> k],
                  LAMBDA k : /\ ~triggers[k].check_only
                             /\ get_matching_paths(triggers[k], path_list) # << >>)
    IN  [j \in DOMAIN at |->
            LET seen == match_upload_triggers(SubSeq(triggers, 1, at[j] - 1),
                                              path_list).check_only_list
                own == modified_workflow_dict(triggers[at[j]],
                           get_matching_paths(triggers[at[j]], path_list), path_list)
            IN  [own EXCEPT !.parameters =
                    replace_invocation_parameters(@,
                        << Item("check_only_workflows", Json(seen)) >>)]]

\* _get_invocation_list_for_uploads: the invocations of the first loop, each
\* with the list of check-only workflows put into its parameters.
get_invocation_list_for_uploads(triggers, path_list) ==
    LET matched == match_upload_triggers(triggers, path_list)
    IN  [k \in DOMAIN matched.invocation_list |->
            [matched.invocation_list[k] EXCEPT !.parameters =
                replace_invocation_parameters(@,
                    << Item("check_only_workflows",
                            Json(matched.check_only_list)) >>)]]

\* _get_invocation_list_for_uploads substituting into the workflow settings
\* of a rule before looking whether a path matches it.
workflow_settings_after_substitute_first(triggers, upload_path_list_) ==
    [k \in DOMAIN triggers |->
        [triggers[k] EXCEPT !.parameters =
            replace_invocation_parameters(@,
                << Item("matching_path_list",
                        Json(get_matching_paths(triggers[k], upload_path_list_))),
                   Item("upload_path_list", Json(upload_path_list_)) >>)]]

\* _get_invocation_list_for_uploads, the rules as the call leaves them:
\* _replace_invocation_parameters writes into the workflow_settings of the
\* rule itself, and is reached only by a rule with a matching path.
workflow_settings_after(triggers, upload_path_list_) ==
    [k \in DOMAIN triggers |->
        LET matching_path_list == get_matching_paths(triggers[k], upload_path_list_)
        IN  IF matching_path_list = << >> THEN triggers[k]
            ELSE [triggers[k] EXCEPT !.parameters =
                     replace_invocation_parameters(@,
                         << Item("matching_path_list", Json(matching_path_list)),
                            Item("upload_path_list", Json(upload_path_list_)) >>)]]

\* _get_invocation_list_for_schedule
get_invocation_list_for_schedule(triggers, trigger_schedule_expr) ==
    LET hit == SelectSeq(triggers,
                   LAMBDA t : t.schedule_expression = trigger_schedule_expr)
    IN  [k \in DOMAIN hit |-> Invocation(hit[k])]

\* _scan_upload_db: the entries of the table, in the order the scan yields.
ScanResults(db) ==
    {[k \in DOMAIN order |->
         [upload_path |-> order[k], upload_time |-> db[order[k]]]]
       : order \in Orderings(DOMAIN db)}

\* No drain is waiting to be retried.
EmptyDrainLog ==
    [pending |-> FALSE, upload_path_list |-> << >>, invocation_list |-> << >>,
     started |-> {}, how |-> "none"]

\* The drains are not followed from one to the next.
DrainLogOff ==
    [pending |-> FALSE, upload_path_list |-> << >>, invocation_list |-> << >>,
     started |-> {}, how |-> "off"]

\* The keys lambda_handler looks for in its event.
EventKeys == {"Records", "drain", "schedule_expression"}
Events == SUBSET EventKeys

\* lambda_handler testing 'drain' before 'Records'.
event_branch_drain_first(keys) ==
    IF "drain" \in keys THEN "drain"
    ELSE IF "Records" \in keys THEN "Records"
    ELSE IF "schedule_expression" \in keys THEN "schedule_expression"
    ELSE "invalid"

\* lambda_handler: the branch taken for an event, by the order of its tests.
event_branch(keys) ==
    IF "Records" \in keys THEN "Records"
    ELSE IF "drain" \in keys THEN "drain"
    ELSE IF "schedule_expression" \in keys THEN "schedule_expression"
    ELSE "invalid"

\* The events are not followed.
EventOff == [on |-> FALSE, keys |-> {}, flip |-> FALSE]
\* No event was received yet.
EventNone == [on |-> TRUE, keys |-> {}, flip |-> FALSE]

\* The events an invocation that takes the given branch can have received;
\* flip changes with every invocation.
received(branch) ==
    IF ~event.on THEN {event}
    ELSE {[on |-> TRUE, keys |-> keys, flip |-> ~event.flip] :
              keys \in {k \in Events : event_branch(k) = branch}}

InitHandler ==
    /\ drainLog \in {DrainLogOff, EmptyDrainLog}
    /\ event \in {EventOff, EventNone}
    /\ now = 0
    /\ window \in 0..MaxWindow
    /\ uploadDb = EmptyDict
    /\ hpc = "idle"
    /\ event_kind = "none"
    /\ upload_path_list = << >>
    /\ invocation_list = << >>
    /\ pos = 1
    /\ result = << >>
    /\ error_list = << >>
    /\ outcome = "none"
    /\ returned = << >>
    /\ raised_msg = << >>
    /\ attempts = << >>
    /\ dbAtScan = EmptyDict
    /\ timeAtSelect = 0
    /\ recordedDuring = {}
    /\ deleted = {}

\* No function is applied on its own.
NoCall == [fn |-> "none"]

InitUpload ==
    InitHandler /\ drainLog = DrainLogOff /\ event = EventOff /\ call = NoCall

\* Time passes.
Tick ==
    /\ UNCHANGED << triggerVars, call >>
    /\ UNCHANGED << drainLog, event >>
    /\ now < MaxTime
    /\ now' = now + 1
    /\ UNCHANGED << window, uploadDb, hpc, event_kind, upload_path_list,
                    invocation_list, pos, result, error_list, outcome, returned,
                    raised_msg, attempts, dbAtScan, timeAtSelect, recordedDuring,
                    deleted >>

\* _write_upload_db storing the entries as the whole content of the table.
write_upload_db_whole_table(db, paths, upload_time) ==
    [p \in paths |-> upload_time]

\* _write_upload_db leaving the record of a path that has one as it is.
write_upload_db_keep_first(db, paths, upload_time) ==
    [p \in DOMAIN db \cup paths |->
        IF p \in DOMAIN db THEN db[p] ELSE upload_time]

\* _write_upload_db: put_item of one entry per path, all with upload_time.
\* The table's key is upload_path (the key _clean_upload_db deletes by), so
\* the item of a path that has one is replaced.
write_upload_db(db, paths, upload_time) ==
    [p \in DOMAIN db \cup paths |->
        IF p \in paths THEN upload_time ELSE db[p]]

\* lambda_handler, 'Records' in event: every notified path is put into the
\* upload table with the current time (_write_upload_db).
HandleRecords(paths) ==
    /\ UNCHANGED << triggerVars, call >>
    /\ drainLog' = IF drainLog = DrainLogOff THEN drainLog ELSE EmptyDrainLog
    /\ event' \in received("Records")
    /\ uploadDb' = write_upload_db(uploadDb, paths, now)
    /\ recordedDuring' = IF hpc # "idle" /\ event_kind = "drain"
                         THEN recordedDuring \cup paths ELSE recordedDuring
    /\ UNCHANGED << now, window, hpc, event_kind, upload_path_list,
                    invocation_list, pos, result, error_list, outcome, returned,
                    raised_msg, attempts, dbAtScan, timeAtSelect, deleted >>

\* _get_invocation_list_for_uploads(config, upload_path_list) for the
\* configured rules and every list _select_upload_paths can return.
upload_invocations ==
    [path_list \in {Sorted(S) : S \in SUBSET Paths} |->
        get_invocation_list_for_uploads(UploadTriggers, path_list)]

\* lambda_handler, none of the keys in event: ValueError('Invalid event!');
\* nothing is read or written.
\* _get_invocation_list_for_uploads(config, upload_path_list) of a drain:
\* config is loaded from the environment of the invocation; the rules are
\* those of call when it holds a configuration, UploadTriggers otherwise.
drain_invocations(path_list) ==
    IF call.fn = "lambda_handler"
    THEN get_invocation_list_for_uploads(call.upload_triggers, path_list)
    ELSE upload_invocations[path_list]

InvalidEvent ==
    /\ UNCHANGED << triggerVars, call >>
    /\ UNCHANGED drainLog
    /\ event' \in received("invalid")
    /\ UNCHANGED << now, window, uploadDb, hpc, event_kind, upload_path_list,
                    invocation_list, pos, result, error_list, outcome, returned,
                    raised_msg, attempts, dbAtScan, timeAtSelect, recordedDuring,
                    deleted >>

\* The drain deleting the records of the selected paths before it starts the
\* workflows.
DrainBeginCleanFirst ==
    /\ UNCHANGED << triggerVars, call >>
    /\ UNCHANGED drainLog
    /\ event' \in received("drain")
    /\ hpc = "idle"
    /\ \E upload_entry_list \in ScanResults(uploadDb) :
          LET paths == select_upload_paths(window, now, upload_entry_list)
          IN  /\ upload_path_list' = paths
              /\ invocation_list' =
                     drain_invocations(paths)
              /\ uploadDb' = [p \in DOMAIN uploadDb \ Range(paths) |-> uploadDb[p]]
              /\ deleted' = Range(paths)
    /\ event_kind' = "drain"
    /\ hpc' = "start"
    /\ pos' = 1
    /\ result' = << >>
    /\ error_list' = << >>
    /\ attempts' = << >>
    /\ dbAtScan' = uploadDb
    /\ timeAtSelect' = now
    /\ recordedDuring' = {}
    /\ outcome' = "none"
    /\ returned' = << >>
    /\ raised_msg' = << >>
    /\ UNCHANGED << now, window >>

\* lambda_handler, 'drain' in event, up to the call of _start_step_functions:
\* scan the table, select the settled paths, build the invocation list.
DrainBegin ==
    /\ UNCHANGED << triggerVars, call >>
    /\ UNCHANGED drainLog
    /\ event' \in received("drain")
    /\ hpc = "idle"
    /\ \E upload_entry_list \in ScanResults(uploadDb) :
          LET paths == select_upload_paths(window, now, upload_entry_list)
          IN  /\ upload_path_list' = paths
              /\ invocation_list' =
                     drain_invocations(paths)
    /\ event_kind' = "drain"
    /\ hpc' = "start"
    /\ pos' = 1
    /\ result' = << >>
    /\ error_list' = << >>
    /\ attempts' = << >>
    /\ dbAtScan' = uploadDb
    /\ timeAtSelect' = now
    /\ recordedDuring' = {}
    /\ deleted' = {}
    /\ outcome' = "none"
    /\ returned' = << >>
    /\ raised_msg' = << >>
    /\ UNCHANGED << now, window, uploadDb >>

\* lambda_handler, 'schedule_expression' in event, up to _start_step_functions.
ScheduleBegin(trigger_schedule_expr) ==
    /\ UNCHANGED << triggerVars, call >>
    /\ UNCHANGED drainLog
    /\ event' \in received("schedule_expression")
    /\ hpc = "idle"
    /\ invocation_list' =
           get_invocation_list_for_schedule(ScheduledTriggers, trigger_schedule_expr)
    /\ event_kind' = "schedule"
    /\ hpc' = "start"
    /\ pos' = 1
    /\ result' = << >>
    /\ error_list' = << >>
    /\ attempts' = << >>
    /\ outcome' = "none"
    /\ returned' = << >>
    /\ raised_msg' = << >>
    /\ UNCHANGED << now, window, uploadDb, upload_path_list, dbAtScan,
                    timeAtSelect, recordedDuring, deleted >>

\* _start_step_functions without the except clause: the first failing start
\* ends the invocation.
PropagateStartError(workflow_settings) ==
    /\ hpc' = "done"
    /\ outcome' = "raised"
    /\ raised_msg' = << workflow_settings >>
    /\ UNCHANGED << result, error_list, pos >>

\* _start_step_functions, except clause: the failed invocation is logged and
\* appended to error_list; the loop goes on.
CatchStartError(workflow_settings) ==
    /\ error_list' = Append(error_list, workflow_settings)
    /\ pos' = pos + 1
    /\ UNCHANGED << result, hpc, outcome, raised_msg >>

\* _start_step_functions, one iteration of the loop: start_execution answers
\* with an execution ARN or raises.
StartStepFunction ==
    /\ UNCHANGED << triggerVars, call >>
    /\ UNCHANGED << drainLog, event >>
    /\ hpc = "start"
    /\ pos <= Len(invocation_list)
    /\ LET workflow_settings == invocation_list[pos]
       IN  \E ok \in BOOLEAN :
              /\ attempts' = Append(attempts, [ws |-> workflow_settings, ok |-> ok])
              /\ IF ok
                 THEN /\ result' = Append(result, ExecutionArn(workflow_settings))
                      /\ pos' = pos + 1
                      /\ UNCHANGED << error_list, hpc, outcome, raised_msg >>
                 ELSE CatchStartError(workflow_settings)
    /\ UNCHANGED << now, window, uploadDb, event_kind, upload_path_list,
                    invocation_list, returned, dbAtScan, timeAtSelect,
                    recordedDuring, deleted >>

\* The end of _start_step_functions when errors are only logged: what was
\* started is returned whatever failed.
start_step_functions_end_log_only ==
    /\ returned' = result
    /\ raised_msg' = raised_msg
    /\ IF event_kind = "drain"
       THEN hpc' = "clean" /\ UNCHANGED outcome
       ELSE hpc' = "done" /\ outcome' = "returned"

\* The end of _start_step_functions raising only when nothing was started.
start_step_functions_end_raise_if_none ==
    IF error_list # << >> /\ result = << >>
    THEN /\ hpc' = "done"
         /\ outcome' = "raised"
         /\ raised_msg' = error_list
         /\ UNCHANGED returned
    ELSE /\ returned' = result
         /\ raised_msg' = raised_msg
         /\ IF event_kind = "drain"
            THEN hpc' = "clean" /\ UNCHANGED outcome
            ELSE hpc' = "done" /\ outcome' = "returned"

\* The end of _start_step_functions: raise one RuntimeError naming error_list
\* if anything failed, else return result (to the drain branch, which goes on
\* to clean the table, or to the schedule branch, which finishes).
start_step_functions_end ==
    IF error_list # << >>
    THEN /\ hpc' = "done"
         /\ outcome' = "raised"
         /\ raised_msg' = error_list
         /\ UNCHANGED returned
    ELSE /\ returned' = result
         /\ raised_msg' = raised_msg
         /\ IF event_kind = "drain"
            THEN hpc' = "clean" /\ UNCHANGED outcome
            ELSE hpc' = "done" /\ outcome' = "returned"

StartStepFunctionsEnd ==
    /\ UNCHANGED << triggerVars, call >>
    /\ UNCHANGED << drainLog, event >>
    /\ hpc = "start"
    /\ pos > Len(invocation_list)
    /\ start_step_functions_end
    /\ UNCHANGED << now, window, uploadDb, event_kind, upload_path_list,
                    invocation_list, pos, result, error_list, attempts, dbAtScan,
                    timeAtSelect, recordedDuring, deleted >>

\* _clean_upload_db called only by a drain that had workflows to start.
clean_upload_db_if_started(db, path_list) ==
    IF invocation_list = << >> THEN db
    ELSE [p \in DOMAIN db \ Range(path_list) |-> db[p]]

\* _clean_upload_db deleting the records of the paths it was not given.
clean_upload_db_keep_listed(db, path_list) ==
    [p \in DOMAIN db \cap Range(path_list) |-> db[p]]

\* _clean_upload_db deleting every record of the table.
clean_upload_db_all(db, path_list) ==
    [p \in {} |-> 0]

\* _clean_upload_db: delete_item for every path of upload_path_list.
clean_upload_db(db, path_list) ==
    [p \in DOMAIN db \ Range(path_list) |-> db[p]]

\* lambda_handler, drain branch after _start_step_functions returned: clean
\* the upload table and finish.
CleanUploadDb ==
    /\ UNCHANGED << triggerVars, call >>
    /\ UNCHANGED << drainLog, event >>
    /\ hpc = "clean"
    /\ uploadDb' = clean_upload_db(uploadDb, upload_path_list)
    /\ deleted' = Range(upload_path_list)
    /\ hpc' = "done"
    /\ outcome' = "returned"
    /\ UNCHANGED << now, window, event_kind, upload_path_list, invocation_list,
                    pos, result, error_list, returned, raised_msg, attempts,
                    dbAtScan, timeAtSelect, recordedDuring >>

\* What is known of the invocation when it ends in the way how: a drain that
\* selected paths, deleted none of them and saw no upload since its scan
\* leaves its paths, its invocations and the workflows it started.
drain_log_at_end(how) ==
    IF event_kind # "drain" \/ drainLog = DrainLogOff THEN drainLog
    ELSE IF upload_path_list # << >> /\ deleted = {} /\ recordedDuring = {}
         THEN [pending |-> TRUE,
               upload_path_list |-> upload_path_list,
               invocation_list |-> invocation_list,
               started |-> {attempts[k].ws : k \in {j \in DOMAIN attempts : attempts[j].ok}},
               how |-> how]
         ELSE EmptyDrainLog

\* The invocation is over; the next event can be handled.
HandlerExit ==
    /\ UNCHANGED << triggerVars, call >>
    /\ drainLog' = drain_log_at_end("raised")
    /\ UNCHANGED event
    /\ hpc = "done"
    /\ hpc' = "idle"
    /\ event_kind' = "none"
    /\ upload_path_list' = << >>
    /\ invocation_list' = << >>
    /\ pos' = 1
    /\ result' = << >>
    /\ error_list' = << >>
    /\ outcome' = "none"
    /\ returned' = << >>
    /\ raised_msg' = << >>
    /\ attempts' = << >>
    /\ dbAtScan' = EmptyDict
    /\ timeAtSelect' = 0
    /\ recordedDuring' = {}
    /\ deleted' = {}
    /\ UNCHANGED << now, window, uploadDb >>

\* The drain invocation stops where it is (the function's timeout, a failure
\* of the runtime): after _select_upload_paths returned, before or after
\* _start_step_functions ended, and before _clean_upload_db.
HandlerKilled ==
    /\ UNCHANGED << triggerVars, call >>
    /\ drainLog' = drain_log_at_end("killed")
    /\ UNCHANGED event
    /\ event_kind = "drain"
    /\ hpc \in {"start", "clean"}
    /\ hpc' = "idle"
    /\ event_kind' = "none"
    /\ upload_path_list' = << >>
    /\ invocation_list' = << >>
    /\ pos' = 1
    /\ result' = << >>
    /\ error_list' = << >>
    /\ outcome' = "none"
    /\ returned' = << >>
    /\ raised_msg' = << >>
    /\ attempts' = << >>
    /\ dbAtScan' = EmptyDict
    /\ timeAtSelect' = 0
    /\ recordedDuring' = {}
    /\ deleted' = {}
    /\ UNCHANGED << now, window, uploadDb >>

\* ------------------------------------- configure_jobs/invoke_via_sfn.py
TaskNames == << "taskA", "taskB", "taskC", "taskD" >>

\* The task names a round can evaluate and the run DB can hold.
Tasks == {TaskNames[i] : i \in 1..NTasks}

\* The concurrent invocations of _get_triggered_tasks.
Rounds == {"r1", "r2"}

\* lambda_config.run_db_key
RunDbKey == "cdp-dev"

\* The key of the item in the run DB table.
WorkflowKey == "workflow"

\* A key that a state dict does not hold.
NoValue == ""

\* What a frequency plugin keeps in its state, besides use_case_name.
PluginData == {"s0", "s1"}

\* {} as a task state
EmptyState == [data |-> NoValue, use_case_name |-> NoValue]

\* The states reload_trigger can return for a task: the plugin decides the
\* content and whether the use_case_name it was handed is part of it.
ReloadResults(task_name) ==
    {[data |-> d, use_case_name |-> u] : d \in PluginData, u \in {NoValue, task_name}}

\* The task_plugin_map arguments: the evaluated tasks, in iteration order.
TaskPluginMaps == UNION {Orderings(S) : S \in SUBSET Tasks}

\* The locals of an invocation that has not started.
IdleRound ==
    [pc                |-> "idle",
     task_plugin_map   |-> << >>,
     update_run_db     |-> TRUE,
     run_db_entry      |-> EmptyDict,
     run_db_entry_copy |-> EmptyDict,
     idx               |-> 1,
     result            |-> << >>,
     error             |-> NoValue,
     returned          |-> FALSE,
     \* history
     baseline          |-> EmptyDict,
     read_failed       |-> FALSE,
     evaluated         |-> << >>,
     advanced          |-> << >>,
     advance_raised    |-> FALSE,
     puts              |-> << >>,
     put_failed        |-> FALSE,
     evaluated_at_put  |-> 0]

\* _get_run_db_table up to the yield, and the deep copy: get_item answered
\* with the stored item ({} if there is none).
round_begin(item, task_plugin_map, update_run_db) ==
    [IdleRound EXCEPT !.pc = "loop",
                      !.task_plugin_map = task_plugin_map,
                      !.update_run_db = update_run_db,
                      !.run_db_entry = item,
                      !.run_db_entry_copy = item,
                      !.baseline = item]

\* _get_run_db_table taking a failed get_item for "no item stored".
round_read_error_as_empty(task_plugin_map, update_run_db) ==
    [round_begin(EmptyDict, task_plugin_map, update_run_db)
        EXCEPT !.read_failed = TRUE]

\* _get_run_db_table: get_item raised; ValueError, nothing is yielded.
round_read_error(task_plugin_map, update_run_db) ==
    [IdleRound EXCEPT !.pc = "done",
                      !.task_plugin_map = task_plugin_map,
                      !.update_run_db = update_run_db,
                      !.error = "get_item",
                      !.read_failed = TRUE]

\* run_db_entry_copy.setdefault(task_name, {}) in place of get: the dict of
\* a task without entry becomes its entry.
stamp_use_case_name_setdefault(copy, task_name) ==
    DictSet(copy, task_name,
            [DictGet(copy, task_name, EmptyState) EXCEPT !.use_case_name = task_name])

\* task_frequency_state = run_db_entry_copy.get(task_name, {}) followed by
\* task_frequency_state['use_case_name'] = task_name: the dict of a task that
\* has an entry is the one inside the copy, so the copy changes with it.
stamp_use_case_name(copy, task_name) ==
    IF task_name \in DOMAIN copy
    THEN [copy EXCEPT ![task_name].use_case_name = task_name]
    ELSE copy

\* The task_frequency_state handed to the plugin.
task_frequency_state(copy, task_name) ==
    [DictGet(copy, task_name, EmptyState) EXCEPT !.use_case_name = task_name]

\* What trigger can leave in the state it is handed: the state as it was,
\* or data of its own in it.
TriggerWrites(state) == {state, [state EXCEPT !.data = "trigger"]}

\* trigger(context, run_db_key, copy.deepcopy(task_frequency_state)): the
\* working copy once trigger has returned or raised. written is the state
\* trigger left in its argument, an object of its own.
after_trigger(copy, task_name, written) == copy

\* trigger raised and the exception is not caught: the loop is left.
on_trigger_raised_abort(rd) ==
    [rd EXCEPT !.pc = "abort", !.error = "trigger"]

\* except Exception: log, continue.
on_trigger_raised(rd) == [rd EXCEPT !.idx = @ + 1]

\* One iteration of the loop of _get_triggered_tasks. verdict is what
\* trigger did (fired / not_fired / raised) and written what it left in its
\* argument; reload_ok and new_state are what reload_trigger did if it was
\* called.
evaluate_task(rd, verdict, written, reload_ok, new_state) ==
    LET task_name == rd.task_plugin_map[rd.idx]
        rd1 == [rd EXCEPT
                   !.run_db_entry_copy =
                       after_trigger(stamp_use_case_name(@, task_name),
                                     task_name, written),
                   !.evaluated = Append(@, [task |-> task_name, verdict |-> verdict])]
    IN  IF verdict = "raised" THEN on_trigger_raised(rd1)
        ELSE IF verdict = "not_fired" THEN [rd1 EXCEPT !.idx = @ + 1]
        ELSE LET rd2 == [rd1 EXCEPT !.result = Append(@, task_name)]
             IN  IF ~rd.update_run_db THEN [rd2 EXCEPT !.idx = @ + 1]
                 ELSE LET rd3 == [rd2 EXCEPT !.advanced = Append(@, task_name)]
                      IN  IF ~reload_ok
                          THEN [rd3 EXCEPT !.pc = "abort",
                                           !.error = "reload_trigger",
                                           !.advance_raised = TRUE]
                          ELSE [rd3 EXCEPT !.run_db_entry_copy =
                                               DictSet(@, task_name, new_state),
                                           !.idx = @ + 1]

\* The transfer writing back only the entries of the evaluated tasks.
commit_entry_delta(rd) ==
    [rd EXCEPT !.run_db_entry =
        [k \in DOMAIN rd.run_db_entry_copy \cap Range(rd.task_plugin_map) |->
            rd.run_db_entry_copy[k]]]

\* run_db_entry.update(run_db_entry_copy)
commit_entry(rd) ==
    [rd EXCEPT !.run_db_entry = DictUpdate(rd.run_db_entry, rd.run_db_entry_copy)]

\* workflow_info.setdefault('workflow', run_db_key)
setdefault_workflow(workflow_info) ==
    IF WorkflowKey \in DOMAIN workflow_info THEN workflow_info
    ELSE DictSet(workflow_info, WorkflowKey, RunDbKey)

\* The exit of _get_run_db_table writing only an item that differs from the
\* one read.
run_db_table_exit_if_changed(rd, put_ok) ==
    LET item == setdefault_workflow(rd.run_db_entry)
    IN  IF item = rd.baseline
        THEN [rd EXCEPT !.pc = "done", !.run_db_entry = item,
                        !.returned = (rd.error = NoValue)]
        ELSE [rd EXCEPT !.pc = "done",
                        !.run_db_entry = item,
                        !.puts = Append(@, item),
                        !.evaluated_at_put = Len(rd.evaluated),
                        !.put_failed = ~put_ok,
                        !.error = IF put_ok THEN @ ELSE "put_item",
                        !.returned = put_ok /\ rd.error = NoValue]

\* _get_run_db_table, finally clause: setdefault and put_item of the whole
\* item; put_item may raise. The function returns result only if nothing
\* was raised.
run_db_table_exit(rd, put_ok) ==
    LET item == setdefault_workflow(rd.run_db_entry)
    IN  [rd EXCEPT !.pc = "done",
                   !.run_db_entry = item,
                   !.puts = Append(@, item),
                   !.evaluated_at_put = Len(rd.evaluated),
                   !.put_failed = ~put_ok,
                   !.error = IF put_ok THEN @ ELSE "put_item",
                   !.returned = put_ok /\ rd.error = NoValue]

\* A put_item that merges the written item into the stored one.
stored_after_merge(db, rd) ==
    IF rd.puts # << >> /\ ~rd.put_failed
    THEN DictUpdate(db, rd.puts[Len(rd.puts)]) ELSE db

\* What the table holds once the invocation rd has ended.
stored_after(db, rd) ==
    IF rd.puts # << >> /\ ~rd.put_failed THEN rd.puts[Len(rd.puts)] ELSE db

\* ---- SFNPayload.process: the request around the trigger round
\* LambdaConfig.allowed_tasks, scope and account_name of the deployment.
allowed_tasks == << "taskA", "taskB" >>
scope == "dev"
account_name == "acct1"

\* The task names a caller can write into tasks and settings.
RequestNames == {"taskA", "taskB", "taskC"}

\* Optional[...] values: None, or a given value (a list is kept as the set of
\* its elements where the code only tests membership or builds a set of it).
None == [given |-> FALSE, val |-> {}]
Some(v) == [given |-> TRUE, val |-> v]

\* x or {} / x or []
OrEmpty(x) == IF x.given /\ x.val # {} THEN x.val ELSE {}

\* position of a task name in the order of str
NameIndex(t) == CHOOSE i \in DOMAIN TaskNames : TaskNames[i] = t

\* sorted(...) of a collection of task names
RECURSIVE sorted_names(_)
sorted_names(S) ==
    IF S = {} THEN << >>
    ELSE LET m == CHOOSE x \in S : \A y \in S : NameIndex(x) <= NameIndex(y)
         IN  << m >> \o sorted_names(S \ {m})

\* UserConfig.get_task_list: None if neither settings nor tasks is given,
\* else the union of the tasks and the settings keys (as list(set(...)), the
\* order of which the caller of this operator chooses).
get_task_list(user_config) ==
    IF ~user_config.settings.given /\ ~user_config.tasks.given THEN None
    ELSE Some(OrEmpty(user_config.tasks) \cup OrEmpty(user_config.settings))

\* UserConfig.get_check_schedule taking an unset flag for "no check".
get_check_schedule_explicit_only(user_config) ==
    user_config.check_schedule = "True"

\* UserConfig.get_check_schedule resolving an unset flag to TRUE always.
get_check_schedule_default_true(user_config) ==
    IF user_config.check_schedule = "None" THEN TRUE
    ELSE user_config.check_schedule = "True"

\* UserConfig.get_check_schedule
get_check_schedule(user_config) ==
    IF user_config.check_schedule = "None"
    THEN ~get_task_list(user_config).given
    ELSE user_config.check_schedule = "True"

\* The answer of _get_task_candidates: a list, or the ValueError raised.
Candidates(list) == [raised |-> FALSE, list |-> list]
InvalidTasks == [raised |-> TRUE, list |-> << >>]

\* _get_task_candidates treating an empty request like no request.
get_task_candidates_nonempty(user_config, user_tasks) ==
    IF get_task_list(user_config).given /\ user_tasks # << >>
    THEN IF Range(user_tasks) \ Range(allowed_tasks) # {} THEN InvalidTasks
         ELSE Candidates(user_tasks)
    ELSE Candidates(allowed_tasks)

\* _get_task_candidates taking the caller's tasks as they are.
get_task_candidates_unchecked(user_config, user_tasks) ==
    IF get_task_list(user_config).given
    THEN Candidates(user_tasks)
    ELSE Candidates(allowed_tasks)

\* _get_task_candidates dropping the names that are not allowed.
get_task_candidates_filter(user_config, user_tasks) ==
    IF get_task_list(user_config).given
    THEN Candidates(SelectSeq(user_tasks, LAMBDA t : t \in Range(allowed_tasks)))
    ELSE Candidates(allowed_tasks)

\* _get_task_candidates; user_tasks is the list get_task_list returned.
get_task_candidates(user_config, user_tasks) ==
    IF get_task_list(user_config).given
    THEN IF Range(user_tasks) \ Range(allowed_tasks) # {} THEN InvalidTasks
         ELSE Candidates(user_tasks)
    ELSE Candidates(allowed_tasks)

\* _check_in_optional_list treating a missing list as "never".
check_in_optional_list_never(value, optional_list) ==
    optional_list.given /\ value \in optional_list.val

\* _check_in_optional_list (default = True)
check_in_optional_list(value, optional_list) ==
    IF ~optional_list.given THEN TRUE ELSE value \in optional_list.val

\* _check_run_config
check_run_config(task_config) ==
    IF ~check_in_optional_list(scope, task_config.run.enabled_scopes) THEN FALSE
    ELSE IF ~check_in_optional_list(account_name,
                                    task_config.run.enabled_account_names)
         THEN FALSE
         ELSE TRUE

\* load_task_config returned None: no file, or a file that does not validate.
NoTaskConfig == [exists |-> FALSE]

\* The frequency settings a task file can hold: a plugin the loader knows
\* with valid parameters, and one it cannot load (unknown name).
Frequencies == {"daily", "nosuch"}

\* PluginLoader.load(frequency) raises unless the plugin is known and its
\* parameters are valid.
plugin_loads(frequency) == frequency = "daily"

\* The values of enabled_scopes / enabled_account_names in a task file.
OptionalLists(current, other) ==
    {None, Some({}), Some({current}), Some({other})}

\* TaskConfig.requirements as the task files declare them.
DeclaredRequirements == << << "pandas" >>, << "numpy", "==", "1.26" >> >>

\* What load_task_config can return for a task: None or a TaskConfig with
\* its run configuration and its requirements.
TaskConfigFiles ==
    {NoTaskConfig} \cup
    {[exists |-> TRUE, requirements |-> DeclaredRequirements,
      run |-> [default |-> d, enabled_scopes |-> es,
               enabled_account_names |-> ea, frequency |-> f]] :
        d \in BOOLEAN,
        es \in OptionalLists(scope, "prod"),
        ea \in OptionalLists(account_name, "acct2"),
        f \in Frequencies}

\* The defaults of UserConfig.
DefaultUserConfig ==
    [tasks |-> None, settings |-> None, check_schedule |-> "None",
     update_run_db |-> TRUE]

\* The locals of a request that has not started.
IdleProcess ==
    [pc                  |-> "idle",
     user_config         |-> DefaultUserConfig,
     candidate_task_list |-> << >>,
     task_config_map     |-> EmptyDict,
     task_plugin_map     |-> << >>,
     selected_task_list  |-> << >>,
     job_list            |-> << >>,
     error               |-> NoValue,
     returned            |-> FALSE,
     \* history
     load_calls          |-> {},
     check_schedule      |-> FALSE,
     plugin_calls        |-> {},
     plugin_errors       |-> {}]

\* _get_task_config_map: the configuration of every task of the list whose
\* file loads, in list order.
get_task_config_map(task_name_list, files) ==
    [t \in {n \in Range(task_name_list) : files[n].exists} |-> files[t]]

\* The keys of task_config_map in iteration order.
config_keys(task_name_list, task_config_map) ==
    SelectSeq(task_name_list, LAMBDA t : t \in DOMAIN task_config_map)

\* except Exception around plugin_loader.load leaving the loop.
on_plugin_load_error_break(rest) == << >>

\* except Exception around plugin_loader.load: log.error, continue.
on_plugin_load_error(rest) == rest

\* The last test of the filter loop taking every task whose plugin loaded.
takes_task_any(is_user_specified_task, task_config) == TRUE

\* if is_user_specified_task or task_config.run.default
takes_task(is_user_specified_task, task_config) ==
    is_user_specified_task \/ task_config.run.default

\* _get_scheduled_tasks, the filter loop: the task_plugin_map it builds, as
\* the list of its keys in insertion order.
RECURSIVE get_task_plugin_map(_, _, _)
get_task_plugin_map(keys, task_config_map, is_user_specified_task) ==
    IF keys = << >> THEN << >>
    ELSE LET task_name == Head(keys)
             task_config == task_config_map[task_name]
             rest == get_task_plugin_map(Tail(keys), task_config_map,
                                         is_user_specified_task)
         IN  IF ~check_run_config(task_config) THEN rest
             ELSE IF ~plugin_loads(task_config.run.frequency)
                  THEN on_plugin_load_error(rest)
                  ELSE IF takes_task(is_user_specified_task, task_config)
                       THEN << task_name >> \o rest
                       ELSE rest

\* ------------------------------------------ configure_jobs/user_config.py
\* a or b for an Optional list or dict a: a when it is given and not empty.
py_or(a, b) == IF a.given /\ a.val # << >> THEN a ELSE b

\* UserTaskConfig(arguments, environment, kwargs)
UserTaskConfig(arguments, environment, kwargs) ==
    [arguments |-> arguments, environment |-> environment, kwargs |-> kwargs]

\* combine merging the environment and the kwargs key by key.
combine_merge(self, default_arguments, default_environment, default_kwargs) ==
    LET merged(override, default) ==
            IF ~override.given THEN default
            ELSE IF ~default.given THEN override
            ELSE Some(DictUpdate(default.val, override.val))
    IN  UserTaskConfig(py_or(self.arguments, default_arguments),
                       merged(self.environment, default_environment),
                       merged(self.kwargs, default_kwargs))

\* UserTaskConfig.combine
combine(self, default_arguments, default_environment, default_kwargs) ==
    UserTaskConfig(py_or(self.arguments, default_arguments),
                   py_or(self.environment, default_environment),
                   py_or(self.kwargs, default_kwargs))

\* ---------------------------- configure_jobs/invoke_via_sfn.py, JobInfo
\* sep.join(texts): the texts with sep between each two of them.
RECURSIVE join(_, _)
join(sep, texts) ==
    IF texts = << >> THEN << >>
    ELSE IF Len(texts) = 1 THEN texts[1]
    ELSE texts[1] \o << sep >> \o join(sep, Tail(texts))

\* str(url) of an AnyUrl.
url_str(url) == << url.scheme, "://", url.host, url.path >>

\* LambdaConfig.cdp_tools_wheel
cdp_tools_wheel == [scheme |-> "s3", host |-> "bucket", path |-> "/cdp_tools.whl"]

JobInfo(additional_python_modules, job_name, task_name, user_task_config) ==
    [additional_python_modules |-> additional_python_modules,
     job_name |-> job_name, task_name |-> task_name,
     user_task_config |-> user_task_config]

NoJobInfo == JobInfo(<< >>, "", "", UserTaskConfig(None, None, None))

\* _get_job_info appending the wheel to the requirements of the task
\* configuration itself.
get_job_info_shared_list(settings, job_name_map, lambda_config, task_name, task_config) ==
    LET task_req_list == Append(task_config.requirements,
                                url_str(lambda_config.cdp_tools_wheel))
        user_settings == IF settings.given /\ DOMAIN settings.val # {}
                         THEN settings.val ELSE EmptyDict
        user_task_config == IF task_name \in DOMAIN user_settings
                            THEN user_settings[task_name]
                            ELSE UserTaskConfig(None, None, None)
    IN  [task_config |-> [task_config EXCEPT !.requirements = task_req_list],
         raised |-> "python" \notin DOMAIN job_name_map,
         job_info |->
             IF "python" \in DOMAIN job_name_map
             THEN JobInfo(join(",", task_req_list), job_name_map["python"],
                          task_name, user_task_config)
             ELSE NoJobInfo]

\* SFNPayload._get_job_info: the task configuration as the call leaves it,
\* and the JobInfo returned unless job_name_map has no 'python' (KeyError).
get_job_info(settings, job_name_map, lambda_config, task_name, task_config) ==
    LET task_req_list == Append(task_config.requirements,
                                url_str(lambda_config.cdp_tools_wheel))
        user_settings == IF settings.given /\ DOMAIN settings.val # {}
                         THEN settings.val ELSE EmptyDict
        user_task_config == IF task_name \in DOMAIN user_settings
                            THEN user_settings[task_name]
                            ELSE UserTaskConfig(None, None, None)
    IN  [task_config |-> task_config,
         raised |-> "python" \notin DOMAIN job_name_map,
         job_info |->
             IF "python" \in DOMAIN job_name_map
             THEN JobInfo(join(",", task_req_list), job_name_map["python"],
                          task_name, user_task_config)
             ELSE NoJobInfo]

\* The task names of a job list.
job_names(job_list) == [k \in DOMAIN job_list |-> job_list[k].task_name]

\* UserConfig.settings as a dict: the request's settings name tasks and
\* give no value for them.
user_settings(user_config) ==
    IF user_config.settings.given
    THEN Some([t \in user_config.settings.val |-> UserTaskConfig(None, None, None)])
    ELSE None

\* process, the list of the return statement: the JobInfo of every selected
\* task, sorted by task name; the job_name_map is the one the step function
\* sends.
job_list_of(pr, selected_task_list) ==
    LET names == sorted_names(Range(selected_task_list))
    IN  [k \in DOMAIN names |->
            get_job_info(user_settings(pr.user_config),
                         [t \in {"python"} |-> "cdp-dev-br-custom_data_processing"],
                         [cdp_tools_wheel |-> cdp_tools_wheel], names[k],
                         pr.task_config_map[names[k]]).job_info]

\* process failing at its end when a frequency plugin did not load.
process_end_plugin_error(pr, selected_task_list) ==
    IF pr.plugin_errors # {}
    THEN [pr EXCEPT !.pc = "done", !.error = "plugin"]
    ELSE [pr EXCEPT !.pc = "done",
                    !.selected_task_list = selected_task_list,
                    !.job_list = job_list_of(pr, selected_task_list),
                    !.returned = TRUE]

\* process, the return statement: one job per selected task, sorted by name.
process_end(pr, selected_task_list) ==
    [pr EXCEPT !.pc = "done",
               !.selected_task_list = selected_task_list,
               !.job_list = job_list_of(pr, selected_task_list),
               !.returned = TRUE]

\* process up to the call of _get_triggered_tasks: candidates, task
\* configurations, and either the schedule filter or the plain selection.
process_begin(user_config, user_tasks, files) ==
    LET candidates == get_task_candidates(user_config, user_tasks)
    IN  IF candidates.raised
        THEN [IdleProcess EXCEPT !.pc = "done",
                                 !.user_config = user_config,
                                 !.error = "ValueError"]
        ELSE LET task_config_map == get_task_config_map(candidates.list, files)
                 keys == config_keys(candidates.list, task_config_map)
                 pr == [IdleProcess EXCEPT
                           !.user_config = user_config,
                           !.candidate_task_list = candidates.list,
                           !.load_calls = Range(candidates.list),
                           !.task_config_map = task_config_map]
             IN  IF get_check_schedule(user_config)
                 THEN [pr EXCEPT
                          !.pc = "scheduled",
                          !.check_schedule = TRUE,
                          !.plugin_calls =
                              {t \in DOMAIN task_config_map :
                                  check_run_config(task_config_map[t])},
                          !.plugin_errors =
                              {t \in DOMAIN task_config_map :
                                  /\ check_run_config(task_config_map[t])
                                  /\ ~plugin_loads(task_config_map[t].run.frequency)},
                          !.task_plugin_map =
                              get_task_plugin_map(keys, task_config_map,
                                  get_task_list(user_config).given)]
                 ELSE process_end(pr, keys)

InitTrigger ==
    /\ runDb = EmptyDict
    /\ round = [r \in Rounds |-> IdleRound]
    /\ proc = IdleProcess

\* _get_triggered_tasks is entered by the lambda invocation r, whatever the
\* other invocations are doing: the run DB item is read, or the read fails.
RoundEnter(r, task_plugin_map, update_run_db) ==
    /\ round[r].pc = "idle"
    /\ \E read_ok \in BOOLEAN :
          round' = [round EXCEPT ![r] =
              IF read_ok THEN round_begin(runDb, task_plugin_map, update_run_db)
              ELSE round_read_error(task_plugin_map, update_run_db)]
    /\ UNCHANGED << runDb, proc, uploadVars >>

\* _get_triggered_tasks is entered (one invocation at a time): the run DB
\* item is read, or the read fails.
RoundBegin(r, task_plugin_map, update_run_db) ==
    /\ \A q \in Rounds : round[q].pc = "idle"
    /\ RoundEnter(r, task_plugin_map, update_run_db)

\* One iteration of the loop over task_plugin_map.
EvaluateTask(r) ==
    /\ round[r].pc = "loop"
    /\ round[r].idx <= Len(round[r].task_plugin_map)
    /\ LET task_name == round[r].task_plugin_map[round[r].idx]
           handed == task_frequency_state(round[r].run_db_entry_copy, task_name)
       IN  \E verdict \in {"fired", "not_fired", "raised"} :
           \E written \in TriggerWrites(handed) :
              IF verdict = "fired" /\ round[r].update_run_db
              THEN \E reload_ok \in BOOLEAN :
                      \E new_state \in ReloadResults(task_name) :
                         round' = [round EXCEPT ![r] =
                             evaluate_task(round[r], verdict, written,
                                           reload_ok, new_state)]
              ELSE round' = [round EXCEPT ![r] =
                       evaluate_task(round[r], verdict, written, TRUE, EmptyState)]
    /\ UNCHANGED << runDb, proc, uploadVars >>

\* The loop is over: the copy is transferred into the entry, the with block
\* is left and the item is written.
RoundCommit(r) ==
    /\ round[r].pc = "loop"
    /\ round[r].idx > Len(round[r].task_plugin_map)
    /\ \E put_ok \in BOOLEAN :
          LET rd == run_db_table_exit(commit_entry(round[r]), put_ok)
          IN  /\ round' = [round EXCEPT ![r] = rd]
              /\ runDb' = stored_after(runDb, rd)
    /\ UNCHANGED << proc, uploadVars >>

\* An exception left the loop and the copy is transferred all the same
\* before the item is written.
RoundAbortTransfer(r) ==
    /\ round[r].pc = "abort"
    /\ \E put_ok \in BOOLEAN :
          LET rd == run_db_table_exit(commit_entry(round[r]), put_ok)
          IN  /\ round' = [round EXCEPT ![r] = rd]
              /\ runDb' = stored_after(runDb, rd)
    /\ UNCHANGED << proc, uploadVars >>

\* An exception left the loop: the with block is left without the transfer
\* and the item is written.
RoundAbort(r) ==
    /\ round[r].pc = "abort"
    /\ \E put_ok \in BOOLEAN :
          LET rd == run_db_table_exit(round[r], put_ok)
          IN  /\ round' = [round EXCEPT ![r] = rd]
              /\ runDb' = stored_after(runDb, rd)
    /\ UNCHANGED << proc, uploadVars >>

\* The invocation is over.
RoundExit(r) ==
    /\ round[r].pc = "done"
    /\ round' = [round EXCEPT ![r] = IdleRound]
    /\ UNCHANGED << runDb, proc, uploadVars >>

\* process is called with the request's user_config: everything up to the
\* call of _get_triggered_tasks. config_files is what the task files of the
\* deployment can hold.
ProcessBegin(user_config, config_files) ==
    /\ proc.pc = "idle"
    /\ \E user_tasks \in Orderings(get_task_list(user_config).val) :
          LET candidates == get_task_candidates(user_config, user_tasks)
          IN  \E files \in [Range(candidates.list) -> config_files] :
                 proc' = process_begin(user_config, user_tasks, files)
    /\ UNCHANGED << runDb, round, uploadVars >>

\* _get_scheduled_tasks calls _get_triggered_tasks with the task_plugin_map.
ProcessRound ==
    /\ proc.pc = "scheduled"
    /\ RoundEnter("r1", proc.task_plugin_map, proc.user_config.update_run_db)

\* _get_triggered_tasks has ended: process returns the job list of the
\* triggered tasks, or the exception goes on to the caller.
ProcessEnd ==
    /\ proc.pc = "scheduled"
    /\ round["r1"].pc = "done"
    /\ proc' = IF round["r1"].returned
               THEN process_end(proc, round["r1"].result)
               ELSE [proc EXCEPT !.pc = "done", !.error = round["r1"].error]
    /\ UNCHANGED << runDb, round, uploadVars >>

Init == InitUpload /\ InitTrigger

\* The upload side with every drain's end kept for the drain after it.
InitRetry ==
    /\ InitHandler /\ InitTrigger
    /\ drainLog = EmptyDrainLog /\ event = EventOff /\ call = NoCall

\* The trigger rounds alone, one after the other: the upload side stays in
\* its initial state with window 0.
InitTriggerOnly == Init /\ window = 0

NextTrigger ==
    \/ \E m \in TaskPluginMaps : \E u \in BOOLEAN : RoundBegin("r1", m, u)
    \/ EvaluateTask("r1")
    \/ RoundCommit("r1")
    \/ RoundAbort("r1")
    \/ RoundExit("r1")

SpecTrigger == InitTriggerOnly /\ [][NextTrigger]_vars

\* The stored items two overlapping invocations can find: none, or one a
\* former round left with an advanced state for the first task.
RaceItems ==
    {EmptyDict,
     DictSet(DictSet(EmptyDict, WorkflowKey, RunDbKey), TaskNames[1],
             [data |-> "s0", use_case_name |-> TaskNames[1]])}

\* Each of the overlapping invocations evaluates one task.
RaceMaps == {<< t >> : t \in Tasks}

InitRace ==
    /\ InitUpload /\ window = 0
    /\ runDb \in RaceItems
    /\ round = [r \in Rounds |-> IdleRound]
    /\ proc = IdleProcess

\* Two invocations of the lambda for the same run_db_key, interleaved step by
\* step; the table is shared, nothing else is.
NextRace ==
    \/ \E r \in Rounds : \E m \in RaceMaps : \E u \in BOOLEAN : RoundEnter(r, m, u)
    \/ \E r \in Rounds : EvaluateTask(r)
    \/ \E r \in Rounds : RoundCommit(r)
    \/ \E r \in Rounds : RoundAbort(r)

SpecRace == InitRace /\ [][NextRace]_vars

\* The requests a caller can send: tasks and settings absent, empty or
\* naming any of RequestNames; check_schedule unset, true or false.
UserConfigs ==
    {[tasks |-> t, settings |-> st, check_schedule |-> c, update_run_db |-> u] :
        t \in {None} \cup {Some(S) : S \in SUBSET RequestNames},
        st \in {None} \cup {Some(S) : S \in SUBSET RequestNames},
        c \in {"None", "True", "False"},
        u \in BOOLEAN}

\* The task files of a deployment in which every task runs by default,
\* everywhere, with a plugin that loads.
PlainConfigFiles ==
    {[exists |-> TRUE, requirements |-> DeclaredRequirements,
      run |-> [default |-> TRUE, enabled_scopes |-> None,
               enabled_account_names |-> None, frequency |-> "daily"]]}

\* Candidate selection for every request, up to the call of
\* _get_triggered_tasks.
NextCandidates ==
    \E user_config \in UserConfigs : ProcessBegin(user_config, PlainConfigFiles)

SpecCandidates == InitTriggerOnly /\ [][NextCandidates]_vars

\* The requests of the whole-request runs: the task list absent, empty, one
\* allowed task, or an allowed and an unknown one; settings absent or for the
\* other allowed task.
ProcessUserConfigs ==
    {uc \in UserConfigs :
        /\ uc.tasks \in {None, Some({}), Some({"taskA"}), Some({"taskA", "taskC"})}
        /\ uc.settings \in {None, Some({"taskB"})}}

\* One request from its arrival to its answer, over any task files.
NextProcess ==
    \/ \E user_config \in ProcessUserConfigs :
          ProcessBegin(user_config, TaskConfigFiles)
    \/ ProcessRound
    \/ EvaluateTask("r1")
    \/ RoundCommit("r1")
    \/ RoundAbort("r1")
    \/ ProcessEnd

InitProcess ==
    /\ InitUpload /\ window = 0
    /\ runDb \in RaceItems
    /\ round = [r \in Rounds |-> IdleRound]
    /\ proc = IdleProcess

SpecProcess == InitProcess /\ [][NextProcess]_vars

NextUpload ==
    \/ Tick
    \/ \E paths \in SUBSET Paths : HandleRecords(paths)
    \/ DrainBegin
    \/ \E e \in ScheduleExpressions : ScheduleBegin(e)
    \/ StartStepFunction
    \/ StartStepFunctionsEnd
    \/ CleanUploadDb
    \/ HandlerExit

SpecUpload == Init /\ [][NextUpload]_vars

\* The upload side with drain invocations that can stop before they end.
NextRetry ==
    \/ Tick
    \/ \E paths \in SUBSET Paths : HandleRecords(paths)
    \/ DrainBegin
    \/ StartStepFunction
    \/ StartStepFunctionsEnd
    \/ CleanUploadDb
    \/ HandlerExit
    \/ HandlerKilled

SpecRetry == InitRetry /\ [][NextRetry]_vars

\* The upload side with the event of every invocation kept, window 0.
InitEvents ==
    /\ InitHandler /\ InitTrigger
    /\ drainLog = DrainLogOff /\ event = EventNone /\ window = 0
    /\ call = NoCall

\* One invocation at a time; a notification names the first path or all.
NextEvents ==
    \/ Tick
    \/ \E paths \in {{1}, Paths} : hpc = "idle" /\ HandleRecords(paths)
    \/ DrainBegin
    \/ InvalidEvent
    \/ StartStepFunction
    \/ StartStepFunctionsEnd
    \/ CleanUploadDb
    \/ HandlerExit

SpecEvents == InitEvents /\ [][NextEvents]_vars

\* A function applied on its own: everything else is in its initial state.
InitCall ==
    /\ InitHandler /\ InitTrigger
    /\ drainLog = DrainLogOff /\ event = EventOff /\ window = 0

\* The upload side under a configuration without a rule for every path:
\* one check-only rule alone, or a rule for last_query_id.parquet files
\* followed by that check-only rule.
InitDrain ==
    /\ InitCall
    /\ call \in {[fn |-> "lambda_handler", upload_triggers |-> rl] :
                    rl \in {SelectSeq(UploadTriggers,
                                      LAMBDA rule : rule.name \in names) :
                                names \in {{"u3"}, {"u2", "u3"}}}}

SpecDrain == InitDrain /\ [][NextRetry]_vars

\* ------------------------------------------------ cdp_tools/__init__.py
\* range(10), the values of retry.
retry_range == 10

\* What client.invoke and the reading of its payload can do: a response
\* with a payload, a ClientError with an error code, another exception.
InvokeOutcomes ==
    {[kind |-> "response", value |-> m] : m \in {"", "msg"}} \cup
    {[kind |-> "ClientError", value |-> c] :
        c \in {"TooManyRequestsException", "AccessDeniedException"}} \cup
    {[kind |-> "Exception", value |-> "ReadTimeoutError"]}

\* The locals of _invoke_lambda when the loop is entered.
InvokeCalls ==
    {[fn |-> "invoke_lambda", lambda_arn |-> a, arg_str |-> s, pc |-> "try",
      retry |-> 0, invoked |-> << >>, slept |-> 0,
      result |-> [kind |-> "none", value |-> ""]] :
        a \in {"arn1", "arn2"}, s \in {"{}", "[1]"}}

\* _invoke_lambda taking every ClientError for a reason to try again.
invoke_lambda_step_retry_any_error(st, attempt) ==
    LET st1 == [st EXCEPT !.invoked = Append(@, attempt)]
    IN  IF attempt.kind = "response"
        THEN [st1 EXCEPT !.pc = "done",
                         !.result = [kind |-> "returned", value |-> attempt.value]]
        ELSE IF attempt.kind = "ClientError"
        THEN IF st.retry + 1 < retry_range
             THEN [st1 EXCEPT !.slept = @ + st.retry, !.retry = @ + 1]
             ELSE [st1 EXCEPT !.slept = @ + st.retry, !.pc = "done",
                              !.result = [kind |-> "RuntimeError",
                                          value |-> st.lambda_arn]]
        ELSE [st1 EXCEPT !.pc = "done", !.result = attempt]

\* _invoke_lambda, one pass of the loop body with what client.invoke did;
\* after the last pass the loop is left and RuntimeError is raised.
invoke_lambda_step(st, attempt) ==
    LET st1 == [st EXCEPT !.invoked = Append(@, attempt)]
    IN  IF attempt.kind = "response"
        THEN [st1 EXCEPT !.pc = "done",
                         !.result = [kind |-> "returned", value |-> attempt.value]]
        ELSE IF /\ attempt.kind = "ClientError"
                /\ attempt.value = "TooManyRequestsException"
        THEN IF st.retry + 1 < retry_range
             THEN [st1 EXCEPT !.slept = @ + st.retry, !.retry = @ + 1]
             ELSE [st1 EXCEPT !.slept = @ + st.retry, !.pc = "done",
                              !.result = [kind |-> "RuntimeError",
                                          value |-> st.lambda_arn]]
        ELSE [st1 EXCEPT !.pc = "done", !.result = attempt]

InvokeLambda(attempt) ==
    /\ call.fn = "invoke_lambda" /\ call.pc = "try"
    /\ call' = invoke_lambda_step(call, attempt)
    /\ UNCHANGED << handlerVars, triggerVars >>

InitInvoke == InitCall /\ call \in InvokeCalls

NextInvoke == \E attempt \in InvokeOutcomes : InvokeLambda(attempt)

\* _invoke_lambda goes on as long as it has not returned or raised.
SpecInvoke == InitInvoke /\ [][NextInvoke]_vars /\ WF_vars(NextInvoke)

\* The calls rule.get_matching_paths(path_list) of any rule and any list of
\* up to MaxPathListLen of the known paths.
MatchingCalls ==
    LET PathNameLists ==
            UNION {[1..n -> Range(PathNames)] : n \in 0..MaxPathListLen}
        FileSelectors ==
            { << "*" >>, << "raw", "*" >>, << "*", "b.csv" >>,
              << "raw", "/snowflake/", "*" >>, << "*", "/snowflake/", "*" >>,
              << "raw", "/", "b.csv" >> }
    IN  {[fn |-> "get_matching_paths", file_selector |-> fs,
          ignore_snowflake_data_files |-> ig, path_list |-> pl,
          done |-> FALSE, result |-> << >>] :
            fs \in FileSelectors, ig \in BOOLEAN, pl \in PathNameLists}

GetMatchingPaths ==
    /\ call.fn = "get_matching_paths" /\ ~call.done
    /\ call' = [call EXCEPT
                   !.done = TRUE,
                   !.result = matching_names(call.file_selector,
                                             call.ignore_snowflake_data_files,
                                             call.path_list)]
    /\ UNCHANGED << handlerVars, triggerVars >>

InitMatching == InitCall /\ call \in MatchingCalls

\* The calls of _get_invocation_list_for_uploads: any selection of the
\* configured rules, in configuration order, and any list of up to
\* MaxPathListLen of the known paths.
InvocationCalls ==
    LET RuleLists ==
            {SelectSeq(UploadTriggers, LAMBDA rule : rule.name \in names) :
                names \in SUBSET {UploadTriggers[k].name : k \in DOMAIN UploadTriggers}}
        PathLists ==
            UNION {[1..n -> DOMAIN PathNames] : n \in 0..MaxPathListLen}
    IN  {[fn |-> "get_invocation_list_for_uploads", upload_triggers |-> rl,
          upload_path_list |-> pl, done |-> FALSE,
          result |-> [invocation_list |-> << >>, check_only_list |-> << >>,
                      upload_triggers |-> rl]] :
            rl \in RuleLists, pl \in PathLists}

\* _get_invocation_list_for_uploads: the list it returns, its check_only_list
\* when it returns, and the rules as it leaves them.
GetInvocationListForUploads ==
    /\ call.fn = "get_invocation_list_for_uploads" /\ ~call.done
    /\ call' = [call EXCEPT
                   !.done = TRUE,
                   !.result =
                       [invocation_list |->
                            get_invocation_list_for_uploads(call.upload_triggers,
                                                            call.upload_path_list),
                        check_only_list |->
                            match_upload_triggers(call.upload_triggers,
                                call.upload_path_list).check_only_list,
                        upload_triggers |->
                            workflow_settings_after(call.upload_triggers,
                                                    call.upload_path_list)]]
    /\ UNCHANGED << handlerVars, triggerVars >>

InitInvocations == InitCall /\ call \in InvocationCalls

SpecInvocations ==
    /\ InitInvocations
    /\ [][GetInvocationListForUploads]_vars

SpecMatching ==
    /\ InitMatching
    /\ [][GetMatchingPaths]_vars

\* The calls of _replace_invocation_parameters: parameter texts of up to
\* MaxParams members; of the names the values refer to, the keyword
\* arguments bind x and z, not y.
ReplaceCalls ==
    LET ParameterKeys == { << "a" >>, << "a", ".$" >>, << "b", ".$" >> }
        ParameterValues ==
            { Str(<< "$.", "x" >>), Str(<< "$.", "y" >>), Str(<< "lit" >>) }
        ParameterTexts ==
            UNION {[1..n -> {Item(k, v) : k \in ParameterKeys,
                                          v \in ParameterValues}] :
                      n \in 0..MaxParams}
        BoundNames == << Item("x", Json("X")), Item("z", Json("Z")) >>
    IN  {[fn |-> "replace_invocation_parameters", parameters |-> t,
          kwargs |-> BoundNames, done |-> FALSE, result |-> << >>] :
            t \in ParameterTexts}

ReplaceInvocationParameters ==
    /\ call.fn = "replace_invocation_parameters" /\ ~call.done
    /\ call' = [call EXCEPT
                   !.done = TRUE,
                   !.result = replace_invocation_parameters(call.parameters,
                                                            call.kwargs)]
    /\ UNCHANGED << handlerVars, triggerVars >>

InitReplace == InitCall /\ call \in ReplaceCalls

SpecReplace ==
    /\ InitReplace
    /\ [][ReplaceInvocationParameters]_vars

\* The calls of combine, their lists and dicts absent, empty, or with
\* content; the default has a key the override has not, and another value
\* for the key they share.
CombineCalls ==
    LET OverrideLists == {None, Some(<< >>), Some(<< "u1" >>)}
        DefaultLists == {None, Some(<< >>), Some(<< "d1", "d2" >>)}
        OverrideDicts == {None, Some(EmptyDict), Some([k \in {"A"} |-> "user"])}
        DefaultDicts ==
            {None, Some(EmptyDict), Some([k \in {"A", "B"} |-> "task"])}
    IN  {[fn |-> "combine",
          self |-> UserTaskConfig(a, e, k),
          default_arguments |-> da, default_environment |-> de,
          default_kwargs |-> dk,
          done |-> FALSE, result |-> UserTaskConfig(None, None, None)] :
            a \in OverrideLists, e \in OverrideDicts, k \in OverrideDicts,
            da \in DefaultLists, de \in DefaultDicts, dk \in DefaultDicts}

Combine ==
    /\ call.fn = "combine" /\ ~call.done
    /\ call' = [call EXCEPT
                   !.done = TRUE,
                   !.result = combine(call.self, call.default_arguments,
                                      call.default_environment,
                                      call.default_kwargs)]
    /\ UNCHANGED << handlerVars, triggerVars >>

InitCombine == InitCall /\ call \in CombineCalls

SpecCombine ==
    /\ InitCombine
    /\ [][Combine]_vars

\* The calls of _get_job_info: up to MaxRequirements requirement
\* specifiers, one of them with a comma in its version range; the user
\* settings absent, empty, for the task, for another task; a job_name_map
\* with and without 'python'.
JobInfoCalls ==
    LET Requirements ==
            { << "pandas" >>, << "numpy", "==", "1.26" >>,
              << "scipy>=1", ",", "<2" >> }
        RequirementLists ==
            UNION {[1..n -> Requirements] : n \in 0..MaxRequirements}
        JobSettings ==
            {None, Some(EmptyDict),
             Some([t \in {"taskA"} |->
                      UserTaskConfig(Some(<< "u1" >>), None, None)]),
             Some([t \in {"taskB"} |-> UserTaskConfig(None, None, None)])}
        JobNameMaps == {[t \in {"python"} |-> "glue-python"],
                        [t \in {"spark"} |-> "glue-spark"]}
    IN  {[fn |-> "get_job_info", settings |-> st, job_name_map |-> jm,
          lambda_config |-> [cdp_tools_wheel |-> cdp_tools_wheel],
          task_name |-> "taskA", task_config |-> [requirements |-> rl],
          done |-> FALSE,
          result |-> [task_config |-> [requirements |-> rl], raised |-> FALSE,
                      job_info |-> NoJobInfo]] :
            st \in JobSettings, jm \in JobNameMaps, rl \in RequirementLists}

GetJobInfo ==
    /\ call.fn = "get_job_info" /\ ~call.done
    /\ call' = [call EXCEPT
                   !.done = TRUE,
                   !.result = get_job_info(call.settings, call.job_name_map,
                                           call.lambda_config, call.task_name,
                                           call.task_config)]
    /\ UNCHANGED << handlerVars, triggerVars >>

InitJobInfo == InitCall /\ call \in JobInfoCalls

SpecJobInfo ==
    /\ InitJobInfo
    /\ [][GetJobInfo]_vars

\* ---- lambda_handler, 'Records' in event, in overlapping invocations
\* The invocations that can run at the same time.
Writers == {"w1", "w2"}

\* The locals of an invocation that has not started.
IdleWriter == [pc |-> "idle", upload_time |-> 0, upload_path_list |-> << >>, idx |-> 1]

\* The invocation w starts: it reads the clock and makes its entries.
WriterBegin(w, paths) ==
    /\ call.fn = "write_upload_db" /\ call.writer[w].pc = "idle"
    /\ call' = [call EXCEPT !.writer[w] =
                   [pc |-> "writing", upload_time |-> now,
                    upload_path_list |-> Sorted(paths), idx |-> 1]]
    /\ UNCHANGED << handlerVars, triggerVars >>

\* _write_upload_db of the invocation w: put_item of its next entry.
WriterPut(w) ==
    LET wr == call.writer[w]
    IN  /\ call.fn = "write_upload_db" /\ wr.pc = "writing"
        /\ wr.idx <= Len(wr.upload_path_list)
        /\ uploadDb' = write_upload_db(uploadDb, {wr.upload_path_list[wr.idx]},
                                       wr.upload_time)
        /\ call' = [call EXCEPT !.writer[w].idx = @ + 1]
        /\ UNCHANGED << now, window, hpc, event_kind, upload_path_list,
                        invocation_list, pos, result, error_list, outcome,
                        returned, raised_msg, attempts, dbAtScan, timeAtSelect,
                        recordedDuring, deleted, drainLog, event >>
        /\ UNCHANGED triggerVars

\* The invocation w has written all its entries and returns them.
WriterReturn(w) ==
    LET wr == call.writer[w]
    IN  /\ call.fn = "write_upload_db" /\ wr.pc = "writing"
        /\ wr.idx > Len(wr.upload_path_list)
        /\ call' = [call EXCEPT !.writer[w].pc = "done"]
        /\ UNCHANGED << handlerVars, triggerVars >>

InitWriters ==
    /\ InitCall
    /\ call = [fn |-> "write_upload_db", writer |-> [w \in Writers |-> IdleWriter]]

NextWriters ==
    \/ Tick
    \/ \E w \in Writers : \E paths \in SUBSET Paths : WriterBegin(w, paths)
    \/ \E w \in Writers : WriterPut(w)
    \/ \E w \in Writers : WriterReturn(w)

\* Overlapping upload notifications: an invocation that has started goes on
\* to its end.
SpecWriters ==
    /\ InitWriters
    /\ [][NextWriters]_vars
    /\ \A w \in Writers : WF_vars(WriterPut(w)) /\ WF_vars(WriterReturn(w))

\* ---- _get_triggered_tasks as a function of the order of task_plugin_map
\* The loop of _get_triggered_tasks from the task at rd.idx on; policy gives
\* for every task what its trigger and its reload_trigger do.
RECURSIVE run_loop(_, _)
run_loop(rd, policy) ==
    IF rd.pc = "loop" /\ rd.idx <= Len(rd.task_plugin_map)
    THEN LET does == policy[rd.task_plugin_map[rd.idx]]
         IN  run_loop(evaluate_task(rd, does.verdict, does.written,
                                    does.reload_ok, does.new_state), policy)
    ELSE rd

\* The with block left with the transfer on every path, also when an
\* exception left the loop.
leave_round_transfer_always(rd, put_ok) ==
    run_db_table_exit(commit_entry(rd), put_ok)

\* The with block is left: after the loop with the transfer (line 141), on
\* an exception without it; the finally clause writes the item.
leave_round(rd, put_ok) ==
    IF rd.pc = "loop" THEN run_db_table_exit(commit_entry(rd), put_ok)
    ELSE run_db_table_exit(rd, put_ok)

\* _get_triggered_tasks from the read of the item to its end.
get_triggered_tasks(item, task_plugin_map, update_run_db, policy, put_ok) ==
    leave_round(run_loop(round_begin(item, task_plugin_map, update_run_db),
                         policy), put_ok)

\* The calls of _get_triggered_tasks: a stored item with no task, with a
\* state for the first task, or with one for every task; any evaluation
\* set; per task a policy that does not fire, raises, fires with a raising
\* reload_trigger, or fires and returns a new state.
TriggerCalls ==
    LET Items ==
            {EmptyDict,
             DictSet(DictSet(EmptyDict, WorkflowKey, RunDbKey), TaskNames[1],
                     [data |-> "s1", use_case_name |-> NoValue]),
             [k \in Tasks \cup {WorkflowKey} |->
                 IF k = WorkflowKey THEN RunDbKey
                 ELSE [data |-> "s0", use_case_name |-> k]]}
        Does(t) ==
            {[verdict |-> v, written |-> [EmptyState EXCEPT !.data = "trigger"],
              reload_ok |-> TRUE, new_state |-> EmptyState] :
                v \in {"not_fired", "raised"}}
            \cup
            {[verdict |-> "fired", written |-> [EmptyState EXCEPT !.data = "trigger"],
              reload_ok |-> ok, new_state |-> [data |-> "s1", use_case_name |-> u]] :
                ok \in BOOLEAN, u \in {NoValue, t}}
        Policies ==
            {policy \in [Tasks -> UNION {Does(t) : t \in Tasks}] :
                \A t \in Tasks : policy[t] \in Does(t)}
    IN  {[fn |-> "get_triggered_tasks", item |-> item, tasks |-> S,
          update_run_db |-> u, policy |-> policy, put_ok |-> ok,
          done |-> FALSE, result |-> << >>] :
            item \in Items, S \in SUBSET Tasks, u \in BOOLEAN,
            policy \in Policies, ok \in BOOLEAN}

\* The round is run once for every order of the evaluation set.
GetTriggeredTasks ==
    /\ call.fn = "get_triggered_tasks" /\ ~call.done
    /\ call' = [call EXCEPT
                   !.done = TRUE,
                   !.result = [order \in Orderings(call.tasks) |->
                                  get_triggered_tasks(call.item, order,
                                                      call.update_run_db,
                                                      call.policy, call.put_ok)]]
    /\ UNCHANGED << handlerVars, triggerVars >>

InitOrder == InitCall /\ call \in TriggerCalls

SpecOrder == InitOrder /\ [][GetTriggeredTasks]_vars

\* Uploads are notified only while the clock can still run past their window.
RecordsInTime == now + window < MaxTime

NextUploadFair ==
    \/ Tick
    \/ \E paths \in SUBSET Paths : RecordsInTime /\ HandleRecords(paths)
    \/ DrainBegin
    \/ \E e \in ScheduleExpressions : ScheduleBegin(e)
    \/ StartStepFunction
    \/ StartStepFunctionsEnd
    \/ CleanUploadDb
    \/ HandlerExit

\* The upload side with its scheduling: time passes, an invocation that has
\* started runs to its end, and drain events keep arriving (the drain is
\* invoked periodically and is not held back by other invocations).
FairSpecUpload ==
    /\ Init
    /\ [][NextUploadFair]_vars
    /\ WF_vars(Tick)
    /\ SF_vars(DrainBegin)
    /\ WF_vars(StartStepFunction)
    /\ WF_vars(StartStepFunctionsEnd)
    /\ WF_vars(CleanUploadDb)
    /\ WF_vars(HandlerExit)

\* ------------------------------------------------------------ properties
\* The invocations whose start_execution raised, in call order.
FailedAttempts == SelectSeq(attempts, LAMBDA a : ~a.ok)
AttemptedSettings == [k \in DOMAIN attempts |-> attempts[k].ws]
StartEnded == hpc \in {"clean", "done"}
DrainRunning == event_kind = "drain" /\ hpc # "idle"

\* C1: _start_step_functions calls start_execution for every entry of its
\* input list exactly once and in input order, whether or not earlier calls
\* failed: while the loop runs the calls made are a prefix of the list, and
\* when the function has ended they are the whole list.
C1_EveryDescriptorAttemptedOnce ==
    /\ hpc = "start" =>
          AttemptedSettings = SubSeq(invocation_list, 1, Len(attempts))
    /\ StartEnded => AttemptedSettings = invocation_list

\* C1 witness: three invocations, the second failed, the third was attempted.
C1_Witness ==
    /\ hpc = "done"
    /\ Len(invocation_list) = 3
    /\ Len(attempts) = 3
    /\ ~attempts[2].ok /\ attempts[1].ok /\ attempts[3].ok

\* C2: when _start_step_functions has ended, either every start succeeded and
\* it returned one execution ARN per invocation in input order, or at least
\* one start failed and it raised, after the last attempt, one error naming
\* exactly the failed invocations; it never returns a partial list.
C2_AllOrError ==
    StartEnded =>
        \/ /\ FailedAttempts = << >>
           /\ outcome # "raised"
           /\ raised_msg = << >>
           /\ returned = [k \in DOMAIN invocation_list |->
                             ExecutionArn(invocation_list[k])]
        \/ /\ FailedAttempts # << >>
           /\ outcome = "raised"
           /\ Len(attempts) = Len(invocation_list)
           /\ raised_msg = [k \in DOMAIN FailedAttempts |-> FailedAttempts[k].ws]
           /\ returned = << >>

\* C2 witness: some starts succeeded, another failed, and the error was raised.
C2_Witness ==
    /\ hpc = "done"
    /\ outcome = "raised"
    /\ result # << >>
    /\ Len(raised_msg) = 2

\* C5: a drain deletes upload records only after every workflow start of the
\* drain succeeded; a drain with a failed start raises, issues no delete, and
\* (no other invocation recording meanwhile) leaves the upload table as it
\* scanned it.
C5_CleanOnlyAfterSuccess ==
    DrainRunning =>
        /\ deleted # {} =>
              /\ Len(attempts) = Len(invocation_list)
              /\ FailedAttempts = << >>
        /\ (FailedAttempts # << >> /\ hpc = "done") =>
              /\ outcome = "raised"
              /\ deleted = {}
              /\ \A p \in DOMAIN dbAtScan : p \in DOMAIN uploadDb
              /\ recordedDuring = {} => uploadDb = dbAtScan

\* C5 witness: a drain with settled paths, one start ok and one failed, ended
\* with the error and the scanned records in place.
C5_Witness ==
    /\ DrainRunning /\ hpc = "done"
    /\ upload_path_list # << >>
    /\ result # << >> /\ error_list # << >>
    /\ uploadDb = dbAtScan

\* C6: the drain selects no path when the table is empty or some record is at
\* most window seconds old (now - latest <= window, equality and window 0
\* included), however old the other records are.
C6_DebounceHold ==
    DrainRunning =>
        ((\/ dbAtScan = EmptyDict
          \/ \E p \in DOMAIN dbAtScan : timeAtSelect - dbAtScan[p] <= window)
            => upload_path_list = << >>)

\* C6 witness: the newest record is exactly window seconds old, window > 0,
\* another record is older than the window, and nothing was selected.
C6_Witness ==
    /\ DrainRunning
    /\ window > 0
    /\ \E p, q \in DOMAIN dbAtScan :
          /\ timeAtSelect - dbAtScan[p] = window
          /\ timeAtSelect - dbAtScan[q] > window
    /\ upload_path_list = << >>

\* The drain's answer to a scan: when every record is more than window
\* seconds old it selects exactly the recorded paths, each once; whatever it
\* selects is never a non-empty strict subset of the recorded paths.
SettledSelectsAll ==
    DrainRunning =>
        /\ (/\ dbAtScan # EmptyDict
            /\ \A p \in DOMAIN dbAtScan : timeAtSelect - dbAtScan[p] > window)
              => /\ Range(upload_path_list) = DOMAIN dbAtScan
                 /\ Len(upload_path_list) = Cardinality(DOMAIN dbAtScan)
        /\ upload_path_list # << >> => Range(upload_path_list) = DOMAIN dbAtScan

\* C7: debounce settle. A drain that finds every record more than window
\* seconds old selects exactly the distinct recorded paths; hence, uploads
\* having stopped, every recorded path is eventually selected by a drain.
C7_DebounceSettle ==
    /\ []SettledSelectsAll
    /\ \A p \in Paths :
          (p \in DOMAIN uploadDb) ~> (DrainRunning /\ p \in Range(upload_path_list))

\* C7 witness: two paths recorded at different times, window > 0, both older
\* than the window, both selected.
C7_Witness ==
    /\ DrainRunning
    /\ window > 0
    /\ \E p, q \in DOMAIN dbAtScan : dbAtScan[p] < dbAtScan[q]
    /\ Len(upload_path_list) = 2

\* ---- trigger rounds
EvaluatedTasks(rd) == [k \in DOMAIN rd.evaluated |-> rd.evaluated[k].task]
VerdictTasks(rd, verdict) ==
    {rd.evaluated[k].task : k \in {j \in DOMAIN rd.evaluated :
                                       rd.evaluated[j].verdict = verdict}}
\* The item rd handed to put_item keeps the state the round read for task t.
KeepsState(rd, item, t) ==
    IF t \in DOMAIN rd.baseline
    THEN t \in DOMAIN item /\ item[t] = rd.baseline[t]
    ELSE t \notin DOMAIN item
ReadDone(rd) == rd.pc = "done" /\ ~rd.read_failed

\* C3: no-touch. For every task that has an entry in the record read at the
\* start of the round and is not in the policy-evaluation set, the item the
\* round writes holds the state that was read.
C3_NoTouch ==
    \A r \in Rounds : \A k \in DOMAIN round[r].puts :
        \A t \in (Tasks \cap DOMAIN round[r].baseline) \ Range(round[r].task_plugin_map) :
            /\ t \in DOMAIN round[r].puts[k]
            /\ round[r].puts[k][t] = round[r].baseline[t]

\* C3 witness: a committed round that changed the state of an evaluated task
\* and wrote back the entry of a task it did not evaluate.
C3_Witness ==
    \E r \in Rounds :
        /\ round[r].pc = "done" /\ round[r].returned
        /\ \E t \in (Tasks \cap DOMAIN round[r].baseline) \ Range(round[r].task_plugin_map) :
              runDb[t] = round[r].baseline[t]
        /\ \E u \in Range(round[r].task_plugin_map) \cap DOMAIN round[r].baseline :
              runDb[u].data # round[r].baseline[u].data

\* The items the round has written into the run DB (put_item succeeded).
Committed(rd) == IF rd.put_failed THEN << >> ELSE rd.puts

\* C4: for every evaluated task whose trigger answered 'not fired' or raised,
\* the state in the committed item equals the state read at the start.
C4_StateChangesOnlyWhenFired ==
    \A r \in Rounds : \A k \in DOMAIN Committed(round[r]) :
        \A t \in VerdictTasks(round[r], "not_fired") \cup VerdictTasks(round[r], "raised") :
            KeepsState(round[r], Committed(round[r])[k], t)

C9_OneWriteAfterAllEvaluated ==
    \A r \in Rounds :
        ReadDone(round[r]) =>
            /\ Len(round[r].puts) = 1
            /\ round[r].evaluated_at_put = Len(round[r].task_plugin_map)

\* C9 amended: every round that read the record makes exactly one put_item,
\* of the whole item under the run-scope key, once the loop has ended: after
\* all tasks have been evaluated or, if a reload_trigger call raised, after
\* the task whose reload_trigger raised; no write happens before.
C9_OneWriteAfterLoop ==
    \A r \in Rounds :
        /\ round[r].pc \in {"loop", "abort"} => round[r].puts = << >>
        /\ ReadDone(round[r]) =>
              /\ Len(round[r].puts) = 1
              /\ WorkflowKey \in DOMAIN round[r].puts[1]
              /\ round[r].puts[1][WorkflowKey] = RunDbKey
              /\ DOMAIN round[r].baseline \subseteq DOMAIN round[r].puts[1]
              /\ round[r].evaluated_at_put = Len(round[r].evaluated)
              /\ IF round[r].advance_raised
                 THEN round[r].evaluated[Len(round[r].evaluated)].task
                          = round[r].advanced[Len(round[r].advanced)]
                 ELSE round[r].evaluated_at_put = Len(round[r].task_plugin_map)

\* C9 witness: a round over a stored record in which a task was evaluated,
\* nothing fired, and the item written is the item read.
C9_Witness ==
    \E r \in Rounds :
        /\ round[r].pc = "done" /\ round[r].returned
        /\ round[r].evaluated # << >>
        /\ round[r].result = << >>
        /\ round[r].baseline # EmptyDict
        /\ Len(round[r].puts) = 1
        /\ round[r].puts[1] = round[r].baseline

\* C10: reload_trigger is called for a task only if it fired and
\* update_run_db is true; with update_run_db false every fired task is in the
\* result, reload_trigger is never called, and the committed item holds for
\* every task the state that was read.
C10_OptInPersistence ==
    \A r \in Rounds :
        /\ Range(round[r].advanced) \subseteq VerdictTasks(round[r], "fired")
        /\ round[r].advanced # << >> => round[r].update_run_db
        /\ ~round[r].update_run_db =>
              /\ VerdictTasks(round[r], "fired") \subseteq Range(round[r].result)
              /\ round[r].advanced = << >>
              /\ \A k \in DOMAIN Committed(round[r]) : \A t \in Tasks :
                    KeepsState(round[r], Committed(round[r])[k], t)

\* ---- overlapping rounds
\* The round r has ended and its put_item succeeded.
Wrote(rd) == rd.pc = "done" /\ rd.puts # << >> /\ ~rd.put_failed

\* Both rounds read the same item and both have written.
BothWrote ==
    /\ \A r \in Rounds : Wrote(round[r])
    /\ round["r1"].baseline = round["r2"].baseline

\* A step in which the round r makes its successful put_item.
Writes(r) == ~Wrote(round[r]) /\ Wrote(round'[r])

\* A write replaces the stored item by the writer's whole working item, and
\* only a write changes the stored item.
WriteReplaces ==
    /\ \A r \in Rounds :
          Writes(r) => runDb' = round'[r].puts[Len(round'[r].puts)]
    /\ (runDb' # runDb) => \E r \in Rounds : Writes(r)

\* C11: last writer wins. Every successful put_item of a round replaces the
\* stored item by that round's whole working item, whatever another round
\* wrote since the baseline was read, and only a round's write changes the
\* stored item; so after two overlapping rounds that read the same baseline
\* the stored item is the item of the one that wrote last.
C11_LastWriterWins ==
    /\ [][WriteReplaces]_vars
    /\ [](BothWrote => \E r \in Rounds : runDb = round[r].puts[1])

\* C11 witness: lost update. Both rounds read the same baseline, one advanced
\* the state of a task the other did not evaluate and committed it, the other
\* wrote afterwards, and the stored item holds the baseline state of that task.
C11_Witness ==
    /\ BothWrote
    /\ \E r, q \in Rounds : \E t \in Tasks :
          /\ r # q
          /\ t \in Range(round[r].advanced)
          /\ t \notin Range(round[q].task_plugin_map)
          /\ round[r].returned /\ round[q].returned
          /\ ~KeepsState(round[r], round[r].puts[1], t)
          /\ runDb = round[q].puts[1]
          /\ KeepsState(round[r], runDb, t)

\* ---- requests (SFNPayload.process)
\* The names the caller wrote into tasks or settings.
Requested(user_config) == user_config.tasks.val \cup user_config.settings.val
\* The caller supplied a task list or settings, possibly empty.
Supplied(user_config) == user_config.tasks.given \/ user_config.settings.given
AllowedSet == Range(allowed_tasks)
Started == proc.pc # "idle"

\* C12: when the caller supplied tasks or settings (either one, even an
\* empty one) and every requested name is allowed, the candidate list holds
\* exactly the union of the task list and the settings keys, each once; when
\* the caller supplied neither, the candidate list is allowed_tasks.
C12_SelectCandidates ==
    Started =>
        /\ (Supplied(proc.user_config) /\ proc.error = NoValue) =>
              /\ Range(proc.candidate_task_list) = Requested(proc.user_config)
              /\ Len(proc.candidate_task_list)
                     = Cardinality(Requested(proc.user_config))
        /\ (Supplied(proc.user_config)
              /\ Requested(proc.user_config) \subseteq AllowedSet)
                 => proc.error = NoValue
        /\ ~Supplied(proc.user_config) =>
              /\ proc.error = NoValue
              /\ proc.candidate_task_list = allowed_tasks

\* C12 witness: an empty task list and no settings give no candidate at all;
\* the request returned an empty job list.
C12_Witness ==
    /\ proc.pc = "done" /\ proc.returned
    /\ proc.user_config.tasks = Some({})
    /\ proc.user_config.settings = None
    /\ proc.candidate_task_list = << >>
    /\ job_names(proc.job_list) = << >>

\* C13: a request naming a task that is not allowed (in tasks or as a
\* settings key) ends with the ValueError of _get_task_candidates: no task
\* configuration is loaded, the run DB is neither read nor written, and no
\* job list is produced.
C13_InvalidTaskAborts ==
    (Started /\ ~(Requested(proc.user_config) \subseteq AllowedSet)) =>
        /\ proc.pc = "done"
        /\ proc.error = "ValueError"
        /\ ~proc.returned
        /\ proc.load_calls = {}
        /\ proc.task_config_map = EmptyDict
        /\ proc.plugin_calls = {}
        /\ job_names(proc.job_list) = << >>
        /\ round["r1"] = IdleRound

\* C13 witness: the request named an allowed and an unknown task and failed.
C13_Witness ==
    /\ proc.pc = "done"
    /\ proc.error = "ValueError"
    /\ Requested(proc.user_config) \cap AllowedSet # {}
    /\ Requested(proc.user_config) \ AllowedSet # {}

\* The condition the specification gives for a task to be applicable.
Applicable(task_config) ==
    /\ \/ ~task_config.run.enabled_scopes.given
       \/ scope \in task_config.run.enabled_scopes.val
    /\ \/ ~task_config.run.enabled_account_names.given
       \/ account_name \in task_config.run.enabled_account_names.val

\* The tasks the round of the request has in its evaluation set or evaluated.
InRound(t) ==
    \/ t \in Range(proc.task_plugin_map)
    \/ t \in Range(round["r1"].task_plugin_map)
    \/ t \in Range(EvaluatedTasks(round["r1"]))

\* C14: _check_run_config answers true for a task iff enabled_scopes is
\* absent or holds the scope and enabled_account_names is absent or holds
\* the account; in a schedule-checking request the plugin is loaded for
\* exactly the applicable tasks, and a task that is not applicable is never
\* in the evaluation set of the round.
C14_IsApplicable ==
    \A t \in DOMAIN proc.task_config_map :
        LET task_config == proc.task_config_map[t]
        IN  /\ check_run_config(task_config) <=> Applicable(task_config)
            /\ proc.check_schedule =>
                  (t \in proc.plugin_calls <=> Applicable(task_config))
            /\ ~Applicable(task_config) => ~InRound(t)

\* C14 witness: a returned request whose round evaluated a task with no
\* enabled_scopes and the account listed, and left out a task whose
\* enabled_scopes names another scope.
C14_Witness ==
    /\ proc.pc = "done" /\ proc.returned /\ proc.check_schedule
    /\ \E t, u \in DOMAIN proc.task_config_map :
          /\ proc.task_config_map[t].run.enabled_scopes = None
          /\ proc.task_config_map[t].run.enabled_account_names
                 = Some({account_name})
          /\ t \in Range(EvaluatedTasks(round["r1"]))
          /\ proc.task_config_map[u].run.enabled_scopes = Some({"prod"})
          /\ proc.task_config_map[u].run.enabled_account_names = None
          /\ plugin_loads(proc.task_config_map[u].run.frequency)
          /\ ~InRound(u)

\* C15: in a schedule-checking request a task is in the evaluation set only
\* if the caller requested it or its configuration has default = true; when
\* the caller supplied no tasks and no settings, a task with default = false
\* is not evaluated, not fired, not advanced, not in the job list, and every
\* item the round writes holds the state read for it.
C15_DefaultOrRequested ==
    proc.check_schedule =>
        \A t \in DOMAIN proc.task_config_map :
            /\ InRound(t) =>
                  \/ t \in Requested(proc.user_config)
                  \/ proc.task_config_map[t].run.default
            /\ (~Supplied(proc.user_config)
                  /\ ~proc.task_config_map[t].run.default) =>
                  /\ ~InRound(t)
                  /\ t \notin Range(round["r1"].result)
                  /\ t \notin Range(round["r1"].advanced)
                  /\ t \notin Range(job_names(proc.job_list))
                  /\ \A k \in DOMAIN round["r1"].puts :
                        KeepsState(round["r1"], round["r1"].puts[k], t)

\* C15 witness: no tasks or settings supplied; a task with default = false,
\* applicable and with a loading plugin, has a stored state and was left
\* alone, while a default task fired, was advanced and is the job list.
C15_Witness ==
    /\ proc.pc = "done" /\ proc.returned
    /\ ~Supplied(proc.user_config)
    /\ \E t, u \in DOMAIN proc.task_config_map :
          /\ ~proc.task_config_map[t].run.default
          /\ Applicable(proc.task_config_map[t])
          /\ plugin_loads(proc.task_config_map[t].run.frequency)
          /\ t \in DOMAIN round["r1"].baseline
          /\ runDb[t] = round["r1"].baseline[t]
          /\ u \in Range(round["r1"].advanced)
          /\ job_names(proc.job_list) = << u >>

\* C16: check_schedule resolves to its value when set, and when unset to
\* true iff the caller supplied neither tasks nor settings. When it resolves
\* to false the request returns one job for every candidate task whose
\* configuration loaded, whatever its run configuration; no plugin is loaded
\* and the run DB is neither read nor written.
C16_NoScheduleCheck ==
    (Started /\ proc.error # "ValueError") =>
        /\ proc.check_schedule =
              (IF proc.user_config.check_schedule = "None"
               THEN ~Supplied(proc.user_config)
               ELSE proc.user_config.check_schedule = "True")
        /\ ~proc.check_schedule =>
              /\ proc.pc = "done" /\ proc.returned
              /\ proc.load_calls = Range(proc.candidate_task_list)
              /\ Range(proc.selected_task_list) = DOMAIN proc.task_config_map
              /\ job_names(proc.job_list) = sorted_names(DOMAIN proc.task_config_map)
              /\ proc.plugin_calls = {}
              /\ round["r1"] = IdleRound

\* C16 witness: check_schedule unset and a task list supplied; the task is
\* not default, enabled for no scope, its plugin does not load, and it is
\* the job list.
C16_Witness ==
    /\ proc.pc = "done" /\ proc.returned
    /\ proc.user_config.check_schedule = "None"
    /\ \E t \in DOMAIN proc.task_config_map :
          /\ ~proc.task_config_map[t].run.default
          /\ proc.task_config_map[t].run.enabled_scopes = Some({})
          /\ ~plugin_loads(proc.task_config_map[t].run.frequency)
          /\ job_names(proc.job_list) = << t >>

\* The tasks of the request that pass every test of the filter loop.
Qualifies(t) ==
    /\ Applicable(proc.task_config_map[t])
    /\ plugin_loads(proc.task_config_map[t].run.frequency)
    /\ (Supplied(proc.user_config) \/ proc.task_config_map[t].run.default)

\* The round of the request ended and nothing raised in it.
RoundReturned == round["r1"].pc = "done" /\ round["r1"].returned

\* C17: in a schedule-checking request, a task whose frequency plugin does
\* not load is only skipped: it is not in the evaluation set, not evaluated,
\* not fired, and every item written holds the state read for it; every
\* other task that passes the filter is in the evaluation set, wherever it
\* stands in the list, and a round in which nothing else raised evaluates
\* them all and the request returns.
C17_PluginLoadErrorSkipsTask ==
    proc.check_schedule =>
        /\ \A t \in proc.plugin_errors :
              /\ ~InRound(t)
              /\ t \notin Range(round["r1"].result)
              /\ t \notin Range(job_names(proc.job_list))
              /\ \A k \in DOMAIN round["r1"].puts :
                    KeepsState(round["r1"], round["r1"].puts[k], t)
        /\ proc.plugin_errors # {} =>
              /\ proc.error # "ValueError"
              /\ \A u \in DOMAIN proc.task_config_map :
                    Qualifies(u) => u \in Range(proc.task_plugin_map)
              /\ RoundReturned =>
                    Range(EvaluatedTasks(round["r1"]))
                        = {u \in DOMAIN proc.task_config_map : Qualifies(u)}
              /\ (RoundReturned /\ proc.pc = "done") => proc.returned

\* C17 witness: the plugin of the first task of the list did not load; the
\* second task was evaluated, fired and is the job list of the request.
C17_Witness ==
    /\ proc.pc = "done" /\ proc.returned
    /\ Len(proc.candidate_task_list) = 2
    /\ proc.candidate_task_list[1] \in proc.plugin_errors
    /\ job_names(proc.job_list) = << proc.candidate_task_list[2] >>
    /\ round["r1"].result = job_names(proc.job_list)

\* C18 as claimed: a request with a task whose frequency plugin is unknown
\* is aborted: the run DB is not read, no job list is returned, and the
\* request ends with an error.
C18_UnknownPolicyAborts ==
    (Started /\ proc.plugin_errors # {}) =>
        /\ ~proc.returned
        /\ round["r1"] = IdleRound
        /\ proc.pc = "done" => proc.error # NoValue

\* C18 amended: an unknown frequency plugin is not an error of the request.
\* The request goes on to the round; it ends with an error only if the round
\* did (get_item, reload_trigger or put_item raised), and otherwise returns
\* the jobs of the fired tasks, none of them a task whose plugin is unknown.
C18_UnknownPolicyIsSkipped ==
    (Started /\ proc.plugin_errors # {}) =>
        /\ proc.pc \in {"scheduled", "done"}
        /\ proc.pc = "done" =>
              /\ round["r1"].pc = "done"
              /\ proc.error = round["r1"].error
              /\ proc.error \in {NoValue, "get_item", "reload_trigger", "put_item"}
              /\ proc.returned = round["r1"].returned
              /\ proc.returned =>
                    /\ job_names(proc.job_list) = sorted_names(Range(round["r1"].result))
                    /\ Range(job_names(proc.job_list)) \cap proc.plugin_errors = {}

\* C18 witness: the only candidate's plugin is unknown; the round ran over an
\* empty evaluation set, wrote the item, and the request returned no job.
C18_Witness ==
    /\ proc.pc = "done" /\ proc.returned
    /\ Len(proc.candidate_task_list) = 1
    /\ proc.plugin_errors = Range(proc.candidate_task_list)
    /\ Len(round["r1"].puts) = 1
    /\ job_names(proc.job_list) = << >>

\* C19: when get_item fails the round raises: no task is evaluated or fired,
\* no put_item is made, the stored item is not replaced, and the request ends
\* with the error and without a job list.
C19_ReadFailureIsFatal ==
    round["r1"].read_failed =>
        /\ round["r1"].pc = "done"
        /\ round["r1"].error = "get_item"
        /\ ~round["r1"].returned
        /\ round["r1"].evaluated = << >>
        /\ round["r1"].result = << >>
        /\ round["r1"].advanced = << >>
        /\ round["r1"].puts = << >>
        /\ proc.pc = "done" =>
              /\ proc.error = "get_item"
              /\ ~proc.returned
              /\ proc.selected_task_list = << >>
              /\ job_names(proc.job_list) = << >>

\* C19 witness: the request had two tasks to evaluate and an item stored;
\* the read failed and the request ended with the error.
C19_Witness ==
    /\ proc.pc = "done"
    /\ round["r1"].read_failed
    /\ Len(proc.task_plugin_map) = 2
    /\ runDb # EmptyDict
    /\ proc.error = "get_item"

\* ---- upload records
\* The items of the upload table.
Records(db) == {[upload_path |-> p, upload_time |-> db[p]] : p \in DOMAIN db}

\* A step of an upload notification that changes the table.
RecordsStep == uploadDb' # uploadDb /\ hpc' = hpc

\* What a notification leaves in the table: every path that had a record
\* has one, holding the time it held or the current time, and every path
\* notified during a drain holds the current time.
RecordsReplace ==
    /\ RecordsStep =>
          /\ DOMAIN uploadDb \subseteq DOMAIN uploadDb'
          /\ \A p \in DOMAIN uploadDb' :
                \/ p \in DOMAIN uploadDb /\ uploadDb'[p] = uploadDb[p]
                \/ uploadDb'[p] = now
    /\ \A p \in recordedDuring' \ recordedDuring :
          p \in DOMAIN uploadDb' /\ uploadDb'[p] = now

\* C20 as claimed: a notification only adds records; every record that was
\* in the table is still there afterwards, next to the new ones.
C20_RecordsCoexist ==
    [][RecordsStep => Records(uploadDb) \subseteq Records(uploadDb')]_vars

\* C20 amended: a notification writes one record per notified path, all
\* with the current time; the record of a path that already has one is
\* replaced, so the table holds one record per path, with the time of the
\* latest notification of that path.
C20_RecordPerPathReplaced ==
    /\ [][RecordsReplace]_vars
    /\ [](Cardinality(Records(uploadDb)) = Cardinality(DOMAIN uploadDb))

\* C20 witness: during a drain two paths were notified at once; one of them
\* had an older record when the drain scanned the table, and the table holds
\* one record for each, both with the time of the notification.
C20_Witness ==
    /\ DrainRunning /\ hpc = "start"
    /\ \E p, q \in recordedDuring :
          /\ p # q
          /\ p \in DOMAIN dbAtScan
          /\ dbAtScan[p] < uploadDb[p]
          /\ q \notin DOMAIN dbAtScan
          /\ uploadDb[q] = uploadDb[p]
    /\ Cardinality(Records(uploadDb)) = 2

\* The workflows the running invocation has started successfully.
StartedOk == {attempts[k].ws : k \in {j \in DOMAIN attempts : attempts[j].ok}}

\* C21: dispatch is at least once.  A drain that follows a drain which had
\* selected settled paths and ended (by an error or by being stopped) before
\* their records were deleted, with no upload in between, selects the same
\* paths and builds the same invocations; when its starts have ended it has
\* called start_execution for all of them, the ones the earlier drain had
\* started included.  Records are deleted only in a drain that has started
\* every matching workflow.
C21_AtLeastOnce ==
    DrainRunning =>
        /\ drainLog.pending =>
              /\ upload_path_list = drainLog.upload_path_list
              /\ invocation_list = drainLog.invocation_list
              /\ StartEnded => AttemptedSettings = drainLog.invocation_list
        /\ deleted # {} =>
              \A k \in DOMAIN invocation_list : invocation_list[k] \in StartedOk

\* C21 witness: a drain was stopped after it had started a workflow and
\* before it deleted a record; the next drain has started that workflow a
\* second time and has then deleted the records.
C21_Witness ==
    /\ DrainRunning /\ hpc = "done" /\ outcome = "returned"
    /\ drainLog.pending /\ drainLog.how = "killed"
    /\ deleted # {}
    /\ drainLog.started \cap StartedOk # {}

\* The drain's scan found no record, or a record that is at most window
\* seconds old.
NothingSettled ==
    \/ dbAtScan = EmptyDict
    \/ \E p \in DOMAIN dbAtScan : timeAtSelect - dbAtScan[p] <= window

\* C22: a drain that finds no record, or whose window has not elapsed, is a
\* normal outcome: it never raises, it makes no start_execution call, it
\* deletes nothing (every record it scanned stays in the table), and when it
\* has ended it has returned the empty list.
C22_EmptyDrainIsNormal ==
    (DrainRunning /\ NothingSettled) =>
        /\ invocation_list = << >> /\ attempts = << >>
        /\ outcome # "raised" /\ raised_msg = << >>
        /\ deleted = {}
        /\ \A p \in DOMAIN dbAtScan : p \in DOMAIN uploadDb
        /\ hpc = "done" => (outcome = "returned" /\ returned = << >>)

\* C22 witness: a drain that scanned a record younger than the window has
\* ended; the record is still in the table.
C22_Witness ==
    /\ DrainRunning /\ hpc = "done"
    /\ dbAtScan # EmptyDict /\ NothingSettled
    /\ uploadDb = dbAtScan
    /\ returned = << >>

\* lambda_handler was invoked with an event that has the key 'Records'.
ReceivedRecords == event'.flip # event.flip /\ "Records" \in event'.keys

\* The step writes upload records and does nothing else.
OnlyAccumulates ==
    /\ \E paths \in SUBSET Paths : uploadDb' = write_upload_db(uploadDb, paths, now)
    /\ \A p \in DOMAIN uploadDb : p \in DOMAIN uploadDb'
    /\ UNCHANGED << hpc, event_kind, upload_path_list, invocation_list, pos,
                    result, error_list, outcome, returned, raised_msg, attempts,
                    deleted >>

\* C23: an invocation whose event has the key 'Records' only accumulates:
\* it puts upload records and does nothing else; it selects no path, matches
\* no rule, starts no workflow and deletes no record, whichever of the keys
\* 'drain' and 'schedule_expression' the event has besides.
C23_RecordsOnlyAccumulate == [][ReceivedRecords => OnlyAccumulates]_vars

\* C23 witness: the last event had 'Records', 'drain' and
\* 'schedule_expression'; its paths are recorded, settled by now, and no
\* invocation that starts workflows has begun.
C23_Witness ==
    /\ event.keys = EventKeys
    /\ uploadDb # EmptyDict
    /\ \A p \in DOMAIN uploadDb : now - uploadDb[p] > window
    /\ hpc = "idle" /\ attempts = << >>

\* name matches the selector: the selector's parts can be laid over the name
\* from its first to its last part, a "*" over any run of parts and every
\* other part over one equal part.
Globs(name, pat) ==
    \E cut \in [0..Len(pat) -> 0..Len(name)] :
        /\ cut[0] = 0 /\ cut[Len(pat)] = Len(name)
        /\ \A i \in 1..Len(pat) :
              /\ cut[i - 1] <= cut[i]
              /\ pat[i] # "*" =>
                    (cut[i] = cut[i - 1] + 1 /\ name[cut[i]] = pat[i])

\* The positions of list whose element is kept.
KeptPositions(list, Keep(_)) == {k \in DOMAIN list : Keep(list[k])}

\* sub is list restricted to the positions in kept, in the order of list.
IsSelection(sub, list, kept) ==
    /\ Len(sub) = Cardinality(kept)
    /\ \A k \in DOMAIN sub :
          \E i \in kept : /\ Cardinality({j \in kept : j <= i}) = k
                           /\ sub[k] = list[i]

\* C27: get_matching_paths returns exactly the paths of its input, in input
\* order, that match the rule's file_selector and, when
\* ignore_snowflake_data_files is set, do not contain '/snowflake/' or end
\* with 'last_query_id.parquet'; without the flag the selector alone decides.
C27_MatchingPaths ==
    (call.fn = "get_matching_paths" /\ call.done) =>
        LET Keep(path) ==
                /\ Globs(path, call.file_selector)
                /\ call.ignore_snowflake_data_files =>
                      \/ \A k \in DOMAIN path : path[k] # "/snowflake/"
                      \/ path[Len(path)] = "last_query_id.parquet"
        IN  IsSelection(call.result, call.path_list,
                        KeptPositions(call.path_list, Keep))

\* C27 witness: a rule with the flag set was given a data file below
\* /snowflake/ and then the last_query_id.parquet below it, both matching
\* its selector, and returned the second alone.
C27_Witness ==
    /\ call.fn = "get_matching_paths" /\ call.done
    /\ call.ignore_snowflake_data_files
    /\ call.file_selector = << "raw", "*" >>
    /\ call.path_list = << PathNames[3], PathNames[1] >>
    /\ call.result = << PathNames[1] >>

\* The item of dict d with the given key.
ItemOf(d, key) == CHOOSE it \in Range(d) : it.key = key

\* The value a name is bound to by the keyword arguments.
Bound(kwargs, name) == ItemOf(kwargs, name).value

\* The item is a placeholder: its key ends in '.$' and its value is '$.'
\* and a bound name.
IsPlaceholder(it, kwargs) ==
    /\ ends_with_dollar(it.key)
    /\ \E name \in Keys(kwargs) : is_reference(it.value, name)

ReferredName(it, kwargs) ==
    CHOOSE name \in Keys(kwargs) : is_reference(it.value, name)

ReplaceDone == call.fn = "replace_invocation_parameters" /\ call.done

\* C26: of the parameters the function is given, every placeholder K.$ with
\* the value '$.' + name, name bound, is replaced by the key K with the value
\* bound to name, and every other item is in the result as it was.
C26_Substitution ==
    ReplaceDone =>
        \A it \in Range(json_loads(call.parameters)) :
            IF IsPlaceholder(it, call.kwargs)
            THEN LET K == SubSeq(it.key, 1, Len(it.key) - 1)
                 IN  /\ K \in Keys(call.result)
                     /\ it.key \notin Keys(call.result)
                     /\ ItemOf(call.result, K).value
                            = Bound(call.kwargs, ReferredName(it, call.kwargs))
            ELSE it \in Range(call.result)

\* The paths each rule of the configuration lets through: those that match
\* its selector and, if it ignores snowflake data files, are not below
\* /snowflake/ or are a last_query_id.parquet.
RuleAccepts ==
    [j \in DOMAIN UploadTriggers |->
        {p \in Paths :
            LET path == PathNames[p]
                rule == UploadTriggers[j]
            IN  /\ Globs(path, rule.file_selector)
                /\ rule.ignore_snowflake_data_files =>
                      \/ \A i \in DOMAIN path : path[i] # "/snowflake/"
                      \/ path[Len(path)] = "last_query_id.parquet"}]

\* The rules, check-only or not, with a matching path among the paths of the
\* running drain, in configuration order.
MatchedRules(check_only) ==
    LET at == SelectSeq([j \in DOMAIN UploadTriggers |-> j],
                  LAMBDA j : /\ UploadTriggers[j].check_only = check_only
                             /\ RuleAccepts[j] \cap Range(upload_path_list) # {})
    IN  [k \in DOMAIN at |-> UploadTriggers[at[k]]]

\* The rules of the configuration that are dispatched for the running drain.
DispatchedRules == MatchedRules(FALSE)

\* The check-only rules of the configuration that matched.
CheckedRules == MatchedRules(TRUE)

\* C24: the invocation list of a drain has exactly one invocation for every
\* rule that is not check-only and has a matching path, in configuration
\* order; no invocation is built and no start attempted for a check-only
\* rule.
C24_CheckOnlyNeverDispatched ==
    DrainRunning =>
        /\ LET rules == DispatchedRules
           IN  /\ Len(invocation_list) = Len(rules)
               /\ \A k \in DOMAIN invocation_list :
                     /\ invocation_list[k].name = rules[k].name
                     /\ invocation_list[k].arn = rules[k].arn
        /\ \A k \in DOMAIN attempts :
              \A j \in DOMAIN UploadTriggers :
                  UploadTriggers[j].check_only
                      => attempts[k].ws.name # UploadTriggers[j].name

\* C24 witness: a drain whose paths match a check-only rule and the rules
\* before and after it has ended; it started two or more workflows.
C24_Witness ==
    /\ DrainRunning /\ hpc = "done" /\ outcome = "returned"
    /\ CheckedRules # << >>
    /\ Len(DispatchedRules) >= 2 /\ Len(result) = Len(DispatchedRules)

\* Two JSON values are the same value.
SameValue(a, b) == a.kind = b.kind /\ a.v = b.v

\* The output of a matched check-only rule: its workflow's name, arn and
\* parameters, the parameters with the rule's matching paths and the paths
\* of the drain in place of their placeholders.
CheckOnlyOutput(rule) ==
    [name |-> rule.name,
     arn |-> rule.arn,
     parameters |->
         replace_invocation_parameters(rule.parameters,
             << Item("matching_path_list",
                     Json(get_matching_paths(rule, upload_path_list))),
                Item("upload_path_list", Json(upload_path_list)) >>)]

\* The outputs of all matched check-only rules, in configuration order.
CheckOnlyOutputs == [k \in DOMAIN CheckedRules |-> CheckOnlyOutput(CheckedRules[k])]

\* The keys K for which the rule's parameters have the placeholder K.$ with
\* the value '$.check_only_workflows'.
CheckOnlyKeys(rule) ==
    {SubSeq(it.key, 1, Len(it.key) - 1) :
        it \in {i \in Range(rule.parameters) :
                   /\ ends_with_dollar(i.key)
                   /\ is_reference(i.value, "check_only_workflows")}}

OverrideOrDefault(combined, override, default) ==
    /\ ~override.given => combined = default
    /\ (override.given /\ Len(override.val) = 0) => combined = default
    /\ (override.given /\ Len(override.val) > 0) => combined = override

\* The same for dicts, the content being the keys.
OverrideOrDefaultDict(combined, override, default) ==
    /\ ~override.given => combined = default
    /\ (override.given /\ DOMAIN override.val = {}) => combined = default
    /\ (override.given /\ DOMAIN override.val # {}) =>
          /\ combined.given
          /\ DOMAIN combined.val = DOMAIN override.val
          /\ \A key \in DOMAIN override.val : combined.val[key] = override.val[key]

\* C28: combine yields, for arguments, for environment and for kwargs each
\* on its own, the override when it is given and not empty and the default
\* otherwise; an empty override yields the default; a non-empty override is
\* taken whole, with no key of the default added to it.
C28_OverrideOrDefault ==
    (call.fn = "combine" /\ call.done) =>
        /\ OverrideOrDefault(call.result.arguments, call.self.arguments,
                             call.default_arguments)
        /\ OverrideOrDefaultDict(call.result.environment, call.self.environment,
                                 call.default_environment)
        /\ OverrideOrDefaultDict(call.result.kwargs, call.self.kwargs,
                                 call.default_kwargs)

\* C28 witness: the environment override has one key and the default two, the
\* kwargs override is empty, the arguments override is absent; the result has
\* the override's environment alone and the default kwargs and arguments.
C28_Witness ==
    /\ call.fn = "combine" /\ call.done
    /\ call.self.arguments = None /\ call.default_arguments.given
    /\ call.self.environment.given /\ call.default_environment.given
    /\ DOMAIN call.self.environment.val = {"A"}
    /\ DOMAIN call.default_environment.val = {"A", "B"}
    /\ DOMAIN call.result.environment.val = {"A"}
    /\ call.self.kwargs = Some(EmptyDict)
    /\ call.default_kwargs.given /\ DOMAIN call.default_kwargs.val = {"A", "B"}
    /\ call.result.kwargs = call.default_kwargs
    /\ call.result.arguments = call.default_arguments

\* The texts one after the other, a comma after each.
RECURSIVE EachThenComma(_)
EachThenComma(texts) ==
    IF texts = << >> THEN << >>
    ELSE Head(texts) \o << "," >> \o EachThenComma(Tail(texts))

JobInfoDone == call.fn = "get_job_info" /\ call.done

\* C29: the dependencies of every JobInfo built (held as one comma-separated
\* text) are the task's declared requirements in their declared order and
\* after them, last, the tools wheel; with no declared requirement they are
\* the wheel alone; and the call leaves the requirements of the task
\* configuration as they were.
C29_RequirementsThenWheel ==
    JobInfoDone =>
        /\ ~call.result.raised =>
              /\ call.result.job_info.additional_python_modules
                    = EachThenComma(call.task_config.requirements)
                      \o << "s3", "://", "bucket", "/cdp_tools.whl" >>
              /\ call.task_config.requirements = << >> =>
                    call.result.job_info.additional_python_modules
                      = << "s3", "://", "bucket", "/cdp_tools.whl" >>
        /\ call.result.task_config.requirements = call.task_config.requirements

\* C29 witness: a JobInfo was built for a task with two different declared
\* requirements.
C29_Witness ==
    /\ JobInfoDone /\ ~call.result.raised
    /\ Len(call.task_config.requirements) = 2
    /\ call.task_config.requirements[1] # call.task_config.requirements[2]
    /\ Len(call.result.job_info.additional_python_modules) > 4

\* The task runs on every schedule tick: its file has default = true, no
\* list of scopes or accounts, and a policy that loads.
RunsEveryTick(t) ==
    /\ t \in DOMAIN proc.task_config_map
    /\ proc.task_config_map[t].run.default
    /\ proc.task_config_map[t].run.enabled_scopes = None
    /\ proc.task_config_map[t].run.enabled_account_names = None
    /\ plugin_loads(proc.task_config_map[t].run.frequency)

\* What the policy of the task answered in the round of the request.
Verdicts(t) ==
    {round["r1"].evaluated[k].verdict :
        k \in {j \in DOMAIN round["r1"].evaluated :
                  round["r1"].evaluated[j].task = t}}

\* How often x is in the list.
Count(list, x) == Cardinality({k \in DOMAIN list : list[k] = x})

\* C30: a request with no user settings at all checks the schedule; an
\* allowed task whose file has default = true, no scope or account list and
\* a loading policy is a candidate and is in the evaluation set, once; when
\* its policy fires, the request that returns has fired the task once and
\* returns exactly one JobInfo for it, with the task's requirements and the
\* wheel, the python job name and an empty user task configuration; the
\* request returns unless the run DB or reload_trigger raised.
C30_SchedulePath ==
    (proc.pc # "idle" /\ proc.user_config = DefaultUserConfig) =>
        \A t \in Range(allowed_tasks) :
            RunsEveryTick(t) =>
                /\ proc.check_schedule
                /\ Count(proc.candidate_task_list, t) = 1
                /\ Count(proc.task_plugin_map, t) = 1
                /\ (proc.pc = "done" /\ Verdicts(t) \subseteq {"fired"}) =>
                      IF proc.returned
                      THEN /\ Verdicts(t) = {"fired"}
                           /\ Count(round["r1"].result, t) = 1
                           /\ Count(job_names(proc.job_list), t) = 1
                           /\ \A k \in DOMAIN proc.job_list :
                                 proc.job_list[k].task_name = t =>
                                     proc.job_list[k] =
                                         JobInfo(<< "pandas", ",",
                                                    "numpy", "==", "1.26", ",",
                                                    "s3", "://", "bucket",
                                                    "/cdp_tools.whl" >>,
                                                 "cdp-dev-br-custom_data_processing",
                                                 t,
                                                 UserTaskConfig(None, None, None))
                      ELSE /\ proc.error \in {"get_item", "reload_trigger", "put_item"}
                           /\ proc.job_list = << >>

\* C30 witness: the request with no user settings has returned; two tasks
\* were evaluated, the one that runs on every tick fired and is the one job
\* of the answer.
C30_Witness ==
    /\ proc.pc = "done" /\ proc.returned
    /\ proc.user_config = DefaultUserConfig
    /\ Len(round["r1"].evaluated) = 2
    /\ \E t \in Range(allowed_tasks) :
          /\ RunsEveryTick(t)
          /\ Verdicts(t) = {"fired"}
          /\ job_names(proc.job_list) = << t >>

\* The paths the invocation w has put so far.
PutBy(w) ==
    {call.writer[w].upload_path_list[k] : k \in 1..(call.writer[w].idx - 1)}

\* An invocation that is writing can take its next step, whatever the table
\* holds and wherever the other invocations are.
NeverWaits ==
    \A w \in Writers :
        call.writer[w].pc = "writing" =>
            ENABLED (WriterPut(w) \/ WriterReturn(w))

\* Every path put so far has a record; an invocation that has returned has
\* put all its paths.
AllRecorded ==
    \A w \in Writers :
        /\ PutBy(w) \subseteq DOMAIN uploadDb
        /\ call.writer[w].pc = "done" =>
              Range(call.writer[w].upload_path_list) \subseteq DOMAIN uploadDb

\* C31: of the upload notifications that run at the same time, in every
\* interleaving, each one that has started returns, never waiting for the
\* table or for another invocation, and when all have returned every path
\* any of them recorded has a record in the upload table.
C31_ConcurrentWriters ==
    /\ [](NeverWaits /\ AllRecorded)
    /\ \A w \in Writers :
          (call.writer[w].pc = "writing") ~> (call.writer[w].pc = "done")

\* C31 witness: two invocations with different paths and different upload
\* times wrote while the other was writing; both have returned and both
\* paths are recorded.
C31_Witness ==
    /\ call.fn = "write_upload_db"
    /\ \A w \in Writers : call.writer[w].pc = "done"
    /\ call.writer["w1"].upload_time # call.writer["w2"].upload_time
    /\ call.writer["w1"].upload_path_list = << 1, 2 >>
    /\ call.writer["w2"].upload_path_list = << 1, 2 >>
    /\ uploadDb[1] # uploadDb[2]

\* The state the dict d holds for task t ({} if it has no entry).
StateOf(d, t) == DictGet(d, t, EmptyState)

\* The round r evaluates a task in this step.
Evaluates(r) ==
    round[r].pc = "loop" /\ Len(round'[r].evaluated) > Len(round[r].evaluated)

\* reload_trigger returned a state for the task evaluated in this step.
Advances(r) ==
    /\ Len(round'[r].advanced) > Len(round[r].advanced)
    /\ ~round'[r].advance_raised

\* Nothing trigger writes into the state it is handed is in the working copy
\* or in an item written.
TriggerWritesDiscarded ==
    \A r \in Rounds : \A t \in Tasks :
        /\ StateOf(round[r].run_db_entry_copy, t).data # "trigger"
        /\ \A k \in DOMAIN round[r].puts :
              StateOf(round[r].puts[k], t).data # "trigger"

\* C32: whatever trigger does to the state it is handed, the working copy
\* and the item written do not hold it, and the state of a task in the
\* working copy changes only in the step in which reload_trigger returned a
\* state for that task.
C32_EvaluateIsSideEffectFree ==
    /\ []TriggerWritesDiscarded
    /\ [][\A r \in Rounds :
            Evaluates(r) =>
                \A t \in Tasks :
                    StateOf(round'[r].run_db_entry_copy, t)
                        # StateOf(round[r].run_db_entry_copy, t)
                    => /\ Advances(r)
                       /\ t = round[r].task_plugin_map[round[r].idx]]_vars

\* What a round leaves: whether it returned, the set of fired tasks it
\* returned, its error, and the item it handed to put_item.
OutcomeOf(rd) ==
    [returned |-> rd.returned,
     fired |-> IF rd.returned THEN Range(rd.result) ELSE {},
     error |-> rd.error,
     written |-> rd.puts]

OrdersDone == call.fn = "get_triggered_tasks" /\ call.done

\* C33: for a stored item, an evaluation set and policies, the set of fired
\* tasks the round returns and the item it writes are the same for every
\* order in which the tasks are evaluated.
C33_OrderIndependent ==
    OrdersDone =>
        \A o1, o2 \in DOMAIN call.result :
            OutcomeOf(call.result[o1]) = OutcomeOf(call.result[o2])

\* C33 witness: two tasks evaluated in both orders; the rounds returned the
\* two tasks as fired in different list order and wrote the same item with
\* a new state for both.
C33_Witness ==
    /\ OrdersDone
    /\ Cardinality(DOMAIN call.result) >= 2
    /\ \E o1, o2 \in DOMAIN call.result :
          /\ call.result[o1].returned /\ call.result[o2].returned
          /\ Len(call.result[o1].result) >= 2
          /\ call.result[o1].result # call.result[o2].result
          /\ call.result[o1].puts = call.result[o2].puts
          /\ call.item # EmptyDict
          /\ Len(call.result[o1].puts) = 1
          /\ \A t \in call.tasks :
                /\ t \in DOMAIN call.result[o1].puts[1]
                /\ call.result[o1].puts[1][t].data = "s1"

\* C34: a task without entry in the item read has an entry in an item the
\* round writes only if its trigger fired in the round, update_run_db is
\* true and reload_trigger was called for it; if it did not fire, its
\* trigger raised, or update_run_db is false, no item written has an entry
\* for it.
C34_EntryCreatedOnlyWhenFired ==
    \A r \in Rounds : \A k \in DOMAIN round[r].puts :
        \A t \in Tasks \ DOMAIN round[r].baseline :
            /\ t \in DOMAIN round[r].puts[k] =>
                  /\ t \in VerdictTasks(round[r], "fired")
                  /\ round[r].update_run_db
                  /\ t \in Range(round[r].advanced)
            /\ (\/ t \notin VerdictTasks(round[r], "fired")
                \/ ~round[r].update_run_db) =>
                  t \notin DOMAIN round[r].puts[k]

\* C34 witness: of two tasks without entry the first fired and the second
\* did not; the round returned, and the stored item has an entry for the
\* first task alone.
C34_Witness ==
    \E r \in Rounds :
        /\ round[r].pc = "done" /\ round[r].returned
        /\ Tasks \cap DOMAIN round[r].baseline = {}
        /\ Len(round[r].evaluated) = 2
        /\ round[r].evaluated[1].verdict = "fired"
        /\ round[r].evaluated[2].verdict \in {"not_fired", "raised"}
        /\ round[r].evaluated[1].task \in DOMAIN runDb
        /\ round[r].evaluated[2].task \notin DOMAIN runDb

InvocationsDone == call.fn = "get_invocation_list_for_uploads" /\ call.done

\* The rules of the call that accept none of its upload paths.
UnmatchedRules ==
    {k \in DOMAIN call.upload_triggers :
        \A i \in DOMAIN call.upload_path_list :
            LET path == PathNames[call.upload_path_list[i]]
                rule == call.upload_triggers[k]
            IN  \/ ~Globs(path, rule.file_selector)
                \/ /\ rule.ignore_snowflake_data_files
                   /\ \E j \in DOMAIN path : path[j] = "/snowflake/"
                   /\ path[Len(path)] # "last_query_id.parquet"}

\* C35: an upload rule that none of the upload paths matches is passed over:
\* the list returned has no invocation of it, the check-only list has no
\* entry of it, and its own parameter template is after the call what it
\* was before.
C35_UnmatchedRuleSkipped ==
    InvocationsDone =>
        \A k \in UnmatchedRules :
            LET rule == call.upload_triggers[k]
                res == call.result
            IN  /\ \A j \in DOMAIN res.invocation_list :
                      res.invocation_list[j].name # rule.name
                /\ \A j \in DOMAIN res.check_only_list :
                      res.check_only_list[j].name # rule.name
                /\ res.upload_triggers[k] = rule

\* C35 witness: of three rules called with two paths, one is matched and
\* its template was substituted, one check-only rule is matched, and one
\* rule is matched by neither path.
C35_Witness ==
    /\ InvocationsDone
    /\ Len(call.upload_path_list) = 2
    /\ UnmatchedRules # {}
    /\ Len(call.result.invocation_list) > 0
    /\ Len(call.result.check_only_list) > 0
    /\ \E k \in DOMAIN call.upload_triggers :
          /\ k \notin UnmatchedRules
          /\ call.result.upload_triggers[k] # call.upload_triggers[k]

\* C36: a round in which a reload_trigger call raised returns no fired list
\* and ends with an error, the error of reload_trigger unless the put_item
\* of the exit raised as well; the one item handed to put_item is the item
\* read at the start of the round with the 'workflow' key set by default,
\* whatever reload_trigger returned for tasks that fired earlier in the
\* round; and a put_item that went through leaves that item stored.
C36_AbortWritesRecordAsRead ==
    \A r \in Rounds :
        (round[r].pc = "done" /\ round[r].advance_raised) =>
            /\ ~round[r].returned
            /\ round[r].error \in {"reload_trigger", "put_item"}
            /\ round[r].error = "put_item" => round[r].put_failed
            /\ Len(round[r].puts) = 1
            /\ \A k \in DOMAIN round[r].puts[1] :
                  IF k \in DOMAIN round[r].baseline
                  THEN round[r].puts[1][k] = round[r].baseline[k]
                  ELSE k = WorkflowKey /\ round[r].puts[1][k] = RunDbKey
            /\ DOMAIN round[r].baseline \subseteq DOMAIN round[r].puts[1]
            /\ ~round[r].put_failed => runDb = round[r].puts[1]

\* C36 witness: in a round over a stored record two tasks fired; the
\* reload_trigger of the first returned a state other than the one read,
\* the reload_trigger of the second raised, and the item written is the
\* item read.
C36_Witness ==
    \E r \in Rounds :
        /\ round[r].pc = "done" /\ round[r].advance_raised
        /\ ~round[r].put_failed
        /\ Len(round[r].advanced) = 2
        /\ round[r].advanced[1] \in DOMAIN round[r].baseline
        /\ round[r].run_db_entry_copy[round[r].advanced[1]]
              # round[r].baseline[round[r].advanced[1]]
        /\ round[r].run_db_entry_copy[round[r].advanced[1]].data
              # round[r].baseline[round[r].advanced[1]].data
        /\ runDb = round[r].baseline

\* C37: of the paths recorded by upload notifications since a drain scanned
\* the table, every one is a path of the list that drain selected and
\* dispatched, or has a record in the table, with the time of a notification
\* not before the scan: while the drain runs, after its clean-up, and when
\* it has ended. The clean-up has deleted paths of the selected list only.
C37_NoUploadLostToDrain ==
    DrainRunning =>
        /\ \A p \in recordedDuring :
              \/ p \in Range(upload_path_list)
              \/ p \in DOMAIN uploadDb /\ uploadDb[p] >= timeAtSelect
        /\ deleted \subseteq Range(upload_path_list)
        /\ \A p \in recordedDuring \ deleted :
              p \in DOMAIN uploadDb /\ uploadDb[p] >= timeAtSelect

\* C37 witness: a drain has selected a path, dispatched and cleaned up;
\* since its scan that path and another one were recorded; the record of
\* the selected path is deleted, the record of the other is in the table.
C37_Witness ==
    /\ DrainRunning /\ hpc = "done" /\ outcome = "returned"
    /\ invocation_list # << >>
    /\ \E p, q \in recordedDuring :
          /\ p \in Range(upload_path_list) /\ p \in deleted
          /\ p \notin DOMAIN uploadDb
          /\ q \notin Range(upload_path_list)
          /\ q \in DOMAIN uploadDb

\* The selected paths that a rule of the drain's configuration accepts.
PathsWithRule(check_only) ==
    {p \in Range(upload_path_list) :
        \E k \in DOMAIN call.upload_triggers :
            LET path == PathNames[p]
                rule == call.upload_triggers[k]
            IN  /\ rule.check_only = check_only
                /\ Globs(path, rule.file_selector)
                /\ rule.ignore_snowflake_data_files =>
                      \/ \A i \in DOMAIN path : path[i] # "/snowflake/"
                      \/ path[Len(path)] = "last_query_id.parquet"}

\* A drain whose _start_step_functions has returned.
Dispatched == DrainRunning /\ hpc \in {"clean", "done"} /\ outcome # "raised"

\* What holds of a drain from the return of _start_step_functions on: it
\* had no error, its next step is the clean-up, and once it has returned
\* every selected path has been deleted and has no record unless it was
\* notified again since the scan.
CleansAllSettled ==
    Dispatched =>
        /\ error_list = << >>
        /\ hpc = "clean" => ENABLED CleanUploadDb
        /\ hpc = "done" =>
              /\ outcome = "returned"
              /\ deleted = Range(upload_path_list)
              /\ \A p \in Range(upload_path_list) \ recordedDuring :
                    p \notin DOMAIN uploadDb

\* C38: a drain that selected paths and whose _start_step_functions ended
\* without error goes on to the clean-up, and the clean-up removes the
\* record of every selected path, whether a rule matched it or not, whether
\* the rules matching it were check-only or not, and whether or not a
\* workflow was started; with no notification since the scan the table
\* then holds no record of a selected path.
C38_SettledPathsRemoved ==
    /\ [] CleansAllSettled
    /\ [][(DrainRunning /\ hpc = "start" /\ hpc' \notin {"start", "idle"}
             /\ error_list = << >>) => hpc' = "clean"]_vars
    /\ [][(DrainRunning /\ hpc = "clean" /\ hpc' = "done") =>
             \A p \in Range(upload_path_list) : p \notin DOMAIN uploadDb']_vars

\* C38 witness: a drain has returned that selected two paths, one that no
\* rule matched and one that only a check-only rule matched; it started no
\* workflow, nothing was notified since its scan, and the table is empty.
C38_Witness ==
    /\ Dispatched /\ hpc = "done"
    /\ Len(upload_path_list) = 2
    /\ invocation_list = << >> /\ attempts = << >> /\ returned = << >>
    /\ PathsWithRule(FALSE) = {}
    /\ PathsWithRule(TRUE) # {}
    /\ PathsWithRule(TRUE) # Range(upload_path_list)
    /\ recordedDuring = {}
    /\ dbAtScan # EmptyDict /\ uploadDb = EmptyDict

\* The candidate tasks whose configuration did not load.
NotLoaded == Range(proc.candidate_task_list) \ DOMAIN proc.task_config_map

\* C39: every job of a list process returns names an allowed task, a
\* candidate of the request whose configuration loaded, and no task twice;
\* a candidate whose configuration did not load has no job, no plugin, and
\* does not end the request: without the schedule check process returns,
\* and with it the only error is that of the trigger round; a task that is
\* not allowed has no job under any request.
C39_JobsOnlyForLoadedAllowedTasks ==
    /\ \A k \in DOMAIN proc.job_list :
          /\ proc.returned
          /\ proc.job_list[k].task_name \in AllowedSet
          /\ proc.job_list[k].task_name \in Range(proc.candidate_task_list)
          /\ proc.job_list[k].task_name \in DOMAIN proc.task_config_map
          /\ \A j \in DOMAIN proc.job_list :
                proc.job_list[j].task_name = proc.job_list[k].task_name => j = k
    /\ (Started /\ NotLoaded # {}) =>
          /\ \A k \in DOMAIN proc.job_list :
                proc.job_list[k].task_name \notin NotLoaded
          /\ NotLoaded \cap Range(proc.task_plugin_map) = {}
          /\ NotLoaded \cap proc.plugin_calls = {}
          /\ proc.error # "ValueError"
          /\ ~proc.check_schedule => (proc.pc = "done" /\ proc.returned)
          /\ (proc.pc = "done" /\ ~proc.returned) =>
                (proc.error # NoValue /\ proc.error = round["r1"].error)

\* C39 witness: process returned one job for a request naming two allowed
\* tasks, one in its tasks and one in its settings, the configuration of
\* one of which did not load.
C39_Witness ==
    /\ proc.pc = "done" /\ proc.returned
    /\ proc.user_config.tasks = Some({"taskA"})
    /\ proc.user_config.settings = Some({"taskB"})
    /\ Len(proc.candidate_task_list) = 2
    /\ Len(proc.job_list) = 1
    /\ NotLoaded # {}
    /\ proc.job_list[1].task_name \in DOMAIN proc.task_config_map

\* client.invoke was throttled in the attempt k.
Throttled(k) ==
    /\ call.invoked[k].kind = "ClientError"
    /\ call.invoked[k].value = "TooManyRequestsException"

\* What holds of _invoke_lambda at every point: it has called client.invoke
\* at most 10 times, each time but the last was throttled, and it ends with
\* the payload of the one response, with the error that was not a
\* throttling error, or, after 10 throttled attempts, with RuntimeError.
InvokeBounded ==
    LET n == Len(call.invoked)
    IN  /\ n <= 10
        /\ \A k \in 1..(n - 1) : Throttled(k)
        /\ call.pc = "try" =>
              /\ n < 10 /\ call.retry = n
              /\ \A k \in 1..n : Throttled(k)
              /\ call.result.kind = "none"
        /\ call.pc = "done" =>
              /\ n >= 1
              /\ call.invoked[n].kind = "response" =>
                    /\ call.result.kind = "returned"
                    /\ call.result.value = call.invoked[n].value
              /\ (call.invoked[n].kind # "response" /\ ~Throttled(n)) =>
                    call.result = call.invoked[n]
              /\ Throttled(n) =>
                    (n = 10 /\ call.result.kind = "RuntimeError")
              /\ call.result.kind = "RuntimeError" =>
                    (n = 10 /\ \A k \in 1..10 : Throttled(k))
        /\ 2 * call.slept <= 9 * 10

\* C40: _invoke_lambda calls client.invoke at most 10 times, again only
\* after a throttling error; it returns the first response, raises any
\* other error at once, raises RuntimeError after the 10th throttled
\* attempt, and always comes to an end.
C40_BoundedRetry ==
    /\ [](call.fn = "invoke_lambda" => InvokeBounded)
    /\ <>(call.fn = "invoke_lambda" /\ call.pc = "done")

\* C40 witness: the 10th attempt was throttled like the nine before it and
\* RuntimeError was raised.
C40_Witness ==
    /\ call.fn = "invoke_lambda" /\ call.pc = "done"
    /\ Len(call.invoked) = 10
    /\ call.invoked[10].value = "TooManyRequestsException"
    /\ call.result.kind = "RuntimeError"
    /\ call.slept = 45
====
